---- MODULE Spec2Model ----
(***************************************************************************)
(* Duct-network layout of joyboyjaypark/vsc_eng.                           *)
(*                                                                         *)
(*   src/calc/room drawer.py : class Palette, the spine/branch builder     *)
(*                             (draw_duct_network) and the drag relocator  *)
(*                             (_move_connected_segments).                 *)
(*   src/duct/router_1st.py  : the Steiner-router palette                  *)
(*                             (auto_route_and_draw).                      *)
(*                                                                         *)
(* Coordinates are grid indices: a Palette model coordinate is             *)
(* index * GRID_STEP_MODEL (0.5 m), so every float the Palette stores is   *)
(* an exact multiple of 0.5 and the 1e-9 comparisons of the source are     *)
(* integer comparisons here.  Airflows are integers.                       *)
(*                                                                         *)
(* The two programs are separate scripts; `app` says which one runs.       *)
(***************************************************************************)
EXTENDS Integers, Sequences, FiniteSets, Bags, TLC

\* ---------------------------------------------------------------- bounds
MaxX == 3
MaxOutlets == 2
MaxDragOutlets == 2
MaxShift == 2
MaxMotions == 3
MaxRouterPoints == 3
MaxStaleEdits == 1

\* ------------------------------------------------------ program constants
\* y_tolerance = 0.5 m of group_outlets_by_y, in grid steps of 0.5 m
YTolerance == 1
\* max_add of the _iterated_1_steiner call and its min_improve
MaxAdd == 30
MinImprove == 1
\* dist = [10**18] * n in _prim_mst: larger than any distance in the grid
Unreached == 1000000

Rows == {0, 1, 2}
Cells == (0..MaxX) \X Rows
InletCells == {<<1, 1>>}
FlowValues == {0, 1}
InletFlowValues == {0, 1, 2}
DpValues == {0, 1}
Shifts == ((0 - MaxShift)..MaxShift) \ {0}
RouterCells == (0..2) \X (0..2)

VARIABLES
    app,                \* "palette" | "router": which script is running
    points,             \* Palette.points: list of AirPoint
    inlet_flow,         \* Palette.inlet_flow
    segments,           \* Palette.segments: the list of DuctSegment, as a bag
    dragging_segment,   \* Palette.dragging_segment (None: active = FALSE)
    motions,            \* effective drag motion events so far
    points_list,        \* router: list of point entries
    item_to_point,      \* router: oval id -> index in points_list
    duct_segments,      \* router: set of normalized segments
    steiner_nodes,      \* router: accepted Steiner points of the last build
    stale_edits,        \* router: point edits since duct_segments was last set
    sizing,             \* the function called on its own last, its arguments and result
    op                  \* the handler that ran last and its outcome

\* ------------------------------------------------------------- data types
AirPoint(mx, my, kind, flow) ==
    [mx |-> mx, my |-> my, kind |-> kind, flow |-> flow]

DuctSegment(mx1, my1, mx2, my2, flow, vertical_only) ==
    [mx1 |-> mx1, my1 |-> my1, mx2 |-> mx2, my2 |-> my2,
     flow |-> flow, vertical_only |-> vertical_only]

NoSegment == DuctSegment(0, 0, 0, 0, 0, FALSE)
\* dragging_segment = None.  `live`: the object is still an element of
\* self.segments; `count`: len(self.segments) when the gesture began (history)
NotDragging == [active |-> FALSE, live |-> FALSE, seg |-> NoSegment, count |-> 0]
\* no sizing function has been called
NoCall == [fn |-> "none", args |-> << >>, result |-> << >>]

Abs(n) == IF n < 0 THEN 0 - n ELSE n

RECURSIVE SumSeq(_)
SumSeq(s) == IF s = << >> THEN 0 ELSE Head(s) + SumSeq(Tail(s))

RECURSIVE Flows(_)
Flows(s) == IF s = << >> THEN << >> ELSE <<Head(s).flow>> \o Flows(Tail(s))

SumFlow(s) == SumSeq(Flows(s))

\* ------------------------------------------------------------ list helpers
RECURSIVE InsertSorted(_, _, _, _)
\* e goes after every element whose key does not come after e's key, which
\* is what Python's stable sorted(key=..., reverse=desc) does to a late element
InsertSorted(e, s, k, desc) ==
    IF s = << >> THEN <<e>>
    ELSE IF (IF desc THEN Head(s)[k] >= e[k] ELSE Head(s)[k] <= e[k])
         THEN <<Head(s)>> \o InsertSorted(e, Tail(s), k, desc)
         ELSE <<e>> \o s

RECURSIVE Sorted(_, _, _)
Sorted(s, k, desc) ==
    IF s = << >> THEN << >>
    ELSE InsertSorted(s[Len(s)], Sorted(SubSeq(s, 1, Len(s) - 1), k, desc), k, desc)

RECURSIVE SortedNodes(_, _)
\* sorted(set(...)) / sorted(set(...), reverse=True) over x coordinates
SortedNodes(S, desc) ==
    IF S = {} THEN << >>
    ELSE LET m == CHOOSE x \in S : \A y \in S : IF desc THEN x >= y ELSE x <= y
         IN  <<m>> \o SortedNodes(S \ {m}, desc)

RECURSIVE Concat(_)
Concat(ss) == IF ss = << >> THEN << >> ELSE Head(ss) \o Concat(Tail(ss))

RECURSIVE SeqToBag(_)
SeqToBag(s) ==
    IF s = << >> THEN EmptyBag ELSE SetToBag({Head(s)}) (+) SeqToBag(Tail(s))

\* --------------------------------------------------- spine/branch builder
\* The try-block around calc_circular_diameter / size_rect_from_D1: both
\* raise ValueError on a non-positive argument; the aspect ratio comes from
\* a read-only combobox of positive values.
Sized(q, dp) == q > 0 /\ dp > 0

RECURSIVE GroupRun_chained(_, _, _)
\* Fault model: an outlet joins the group when it is within the tolerance of
\* the group's last member instead of its first
GroupRun_chained(rest, current_group, groups) ==
    IF rest = << >> THEN Append(groups, current_group)
    ELSE IF Abs(Head(rest).my - current_group[Len(current_group)].my) <= YTolerance
         THEN GroupRun_chained(Tail(rest), Append(current_group, Head(rest)), groups)
         ELSE GroupRun_chained(Tail(rest), <<Head(rest)>>, Append(groups, current_group))

RECURSIVE GroupRun(_, _, _)
GroupRun(rest, current_group, groups) ==
    IF rest = << >> THEN Append(groups, current_group)
    ELSE IF Abs(Head(rest).my - current_group[1].my) <= YTolerance
         THEN GroupRun(Tail(rest), Append(current_group, Head(rest)), groups)
         ELSE GroupRun(Tail(rest), <<Head(rest)>>, Append(groups, current_group))

group_outlets_by_y(outlet_list) ==
    IF outlet_list = << >> THEN << >>
    ELSE LET sorted_by_y == Sorted(outlet_list, "my", FALSE)
         IN  GroupRun(Tail(sorted_by_y), <<sorted_by_y[1]>>, << >>)

\* x of the group's outlet nearest the inlet (desc: the left side)
first_x(group, desc) == Sorted(group, "mx", desc)[1].mx

\* right_group_map / left_group_map: a dict keyed by first_x, so a later
\* group with the same first_x replaces the entry of an earlier one
group_map(groups, desc) ==
    LET keys == {first_x(groups[i], desc) : i \in DOMAIN groups}
        last(x) == CHOOSE i \in DOMAIN groups :
                      /\ first_x(groups[i], desc) = x
                      /\ \A j \in DOMAIN groups :
                             first_x(groups[j], desc) = x => j <= i
    IN  [x \in keys |-> SumFlow(groups[last(x)])]

RECURSIVE SumMap(_, _)
SumMap(m, keys) ==
    IF keys = {} THEN 0
    ELSE LET x == CHOOSE x \in keys : TRUE IN m[x] + SumMap(m, keys \ {x})

\* flow_downstream_from_right / flow_downstream_from_left
flow_downstream_from(m, x_pos, desc) ==
    SumMap(m, {x \in DOMAIN m : IF desc THEN x < x_pos ELSE x > x_pos})

\* Fault model: the sub-segment sized by the groups it has reached (those at
\* or before its far end) instead of the groups still ahead of it
Q_main_served(inlet, m, x1, x2, desc) ==
    SumMap(m, {x \in DOMAIN m : IF desc THEN x >= x2 ELSE x <= x2})

\* Fault model: the sub-segment at the inlet sized by the inlet's airflow
Q_main_from_inlet(inlet, m, x1, x2, desc) ==
    IF x1 = inlet.mx THEN inlet.flow
    ELSE flow_downstream_from(m, x1, desc)

\* Q_main of the spine sub-segment from x1 to x2
Q_main(inlet, m, x1, x2, desc) ==
    IF x1 = inlet.mx THEN SumMap(m, DOMAIN m)
    ELSE flow_downstream_from(m, x1, desc)

\* steps 5 and 6: the spine of one side, inlet.mx outward
spine_segments(inlet, m, desc, dp) ==
    LET x_nodes == SortedNodes({inlet.mx} \cup DOMAIN m, desc)
        y_main == inlet.my
        Q(i) == Q_main(inlet, m, x_nodes[i], x_nodes[i + 1], desc)
        one(i) == IF \/ x_nodes[i] = x_nodes[i + 1]
                     \/ Q(i) <= 0
                     \/ ~Sized(Q(i), dp)
                  THEN << >>
                  ELSE <<DuctSegment(x_nodes[i], y_main, x_nodes[i + 1], y_main,
                                     Q(i), FALSE)>>
    IN  IF DOMAIN m = {} THEN << >>
        ELSE Concat([i \in 1..(Len(x_nodes) - 1) |-> one(i)])

\* step 7, one outlet of a multi-outlet group
outlet_segments(group_sorted, i, group_y, dp) ==
    LET ot == group_sorted[i]
        n == Len(group_sorted)
        remaining_flow == SumFlow(SubSeq(group_sorted, i + 1, n))
        seg_horiz == DuctSegment(ot.mx, group_y, group_sorted[i + 1].mx, group_y,
                                 remaining_flow, FALSE)
        seg_vert == DuctSegment(ot.mx, group_y, ot.mx, ot.my, ot.flow, TRUE)
        stub == IF group_y # ot.my /\ Sized(ot.flow, dp) THEN <<seg_vert>> ELSE << >>
    IN  IF ot.flow <= 0 THEN << >>
        ELSE IF i < n
             THEN IF ~Sized(remaining_flow, dp) THEN << >>
                  ELSE <<seg_horiz>> \o stub
             ELSE stub

\* step 7, one group
group_segments(group, y_main, desc, dp) ==
    LET group_sorted == Sorted(group, "mx", desc)
        group_y == group[1].my
        group_flow == SumFlow(group)
        ot == group[1]
        seg_vertical == DuctSegment(group_sorted[1].mx, y_main,
                                    group_sorted[1].mx, group_y, group_flow, TRUE)
    IN  IF Len(group) = 1
        THEN IF ot.flow <= 0 \/ ~Sized(ot.flow, dp) THEN << >>
             ELSE <<DuctSegment(ot.mx, y_main, ot.mx, ot.my, ot.flow, TRUE)>>
        ELSE IF ~Sized(group_flow, dp) THEN << >>
             ELSE <<seg_vertical>> \o
                  Concat([i \in 1..Len(group_sorted) |->
                             outlet_segments(group_sorted, i, group_y, dp)])

branch_segments(groups, y_main, desc, dp) ==
    Concat([g \in DOMAIN groups |-> group_segments(groups[g], y_main, desc, dp)])

\* Fault model: each stub sized by the summed flow of the co-linear outlets
center_segments_summed(center_outlets, y_main, dp) ==
    Concat([c \in DOMAIN center_outlets |->
        LET ot == center_outlets[c]
            Q == SumFlow(center_outlets)
        IN  IF ot.flow <= 0 \/ ~Sized(Q, dp) THEN << >>
            ELSE <<DuctSegment(ot.mx, y_main, ot.mx, ot.my, Q, TRUE)>>])

center_segments(center_outlets, y_main, dp) ==
    Concat([c \in DOMAIN center_outlets |->
        LET ot == center_outlets[c]
        IN  IF ot.flow <= 0 \/ ~Sized(ot.flow, dp) THEN << >>
            ELSE <<DuctSegment(ot.mx, y_main, ot.mx, ot.my, ot.flow, TRUE)>>])

IsOutlet(p) == p.kind = "outlet"

\* The segment list draw_duct_network leaves behind, in the order it appends
\* step 2: the riser from the inlet to the main line, the one segment sized
\* by the inlet's own airflow
inlet_riser(inlet, y_main, dp) ==
    IF inlet.my # y_main /\ Sized(inlet.flow, dp)
    THEN <<DuctSegment(inlet.mx, inlet.my, inlet.mx, y_main, inlet.flow, TRUE)>>
    ELSE << >>

network_segments(pts, dp) ==
    LET inlet == pts[1]
        y_main == inlet.my
        outlets == SelectSeq(Tail(pts), IsOutlet)
        IsLeft(ot) == ot.mx < inlet.mx
        IsRight(ot) == ot.mx > inlet.mx
        IsCenter(ot) == ot.mx = inlet.mx
        left_groups == group_outlets_by_y(SelectSeq(outlets, IsLeft))
        right_groups == group_outlets_by_y(SelectSeq(outlets, IsRight))
    IN  inlet_riser(inlet, y_main, dp)
        \o spine_segments(inlet, group_map(right_groups, FALSE), FALSE, dp)
        \o spine_segments(inlet, group_map(left_groups, TRUE), TRUE, dp)
        \o branch_segments(right_groups, y_main, FALSE, dp)
        \o branch_segments(left_groups, y_main, TRUE, dp)
        \o center_segments(SelectSeq(outlets, IsCenter), y_main, dp)

\* ------------------------------------------------------- drag relocation
seg_endpoints(seg) == {<<seg.mx1, seg.my1>>, <<seg.mx2, seg.my2>>}

SharesEndpoint(a, b) == seg_endpoints(a) \cap seg_endpoints(b) # {}

\* Fault model: the search stops at the dragged segment, so its neighbours
\* stay where they are
bfs_base_only(connected, live) == connected

RECURSIVE bfs_connected(_, _)
\* the breadth-first search of _move_connected_segments: everything of
\* `live` reachable from the segments in `connected` over shared endpoints
bfs_connected(connected, live) ==
    LET more == {other \in live \ connected :
                    \E cur \in connected : SharesEndpoint(cur, other)}
    IN  IF more = {} THEN connected ELSE bfs_connected(connected \cup more, live)

point_positions(pts) == {<<pts[i].mx, pts[i].my>> : i \in DOMAIN pts}

\* Fault model: only the inlet pins an endpoint
is_attached_to_inlet(pts, x, y) == pts # << >> /\ <<x, y>> = <<pts[1].mx, pts[1].my>>

is_attached_to_point(pts, x, y) == <<x, y>> \in point_positions(pts)

\* the first loop of _move_connected_segments for one segment: either the
\* segment with its free endpoints displaced, or the split it is queued for
displaced(pts, seg, dx, dy) ==
    LET pt1_fixed == is_attached_to_point(pts, seg.mx1, seg.my1)
        pt2_fixed == is_attached_to_point(pts, seg.mx2, seg.my2)
        new_x1 == seg.mx1 + dx
        new_y1 == seg.my1 + dy
        new_x2 == seg.mx2 + dx
        new_y2 == seg.my2 + dy
    IN  IF pt1_fixed /\ ~pt2_fixed
        THEN IF seg.mx1 # new_x2 /\ seg.my1 # new_y2
             THEN [split |-> TRUE, seg |-> seg,
                   pt1 |-> <<seg.mx1, seg.my1>>, pt2 |-> <<new_x2, new_y2>>]
             ELSE [split |-> FALSE,
                   seg |-> [seg EXCEPT !.mx2 = new_x2, !.my2 = new_y2],
                   pt1 |-> <<0, 0>>, pt2 |-> <<0, 0>>]
        ELSE IF pt2_fixed /\ ~pt1_fixed
        THEN IF new_x1 # seg.mx2 /\ new_y1 # seg.my2
             THEN [split |-> TRUE, seg |-> seg,
                   pt1 |-> <<new_x1, new_y1>>, pt2 |-> <<seg.mx2, seg.my2>>]
             ELSE [split |-> FALSE,
                   seg |-> [seg EXCEPT !.mx1 = new_x1, !.my1 = new_y1],
                   pt1 |-> <<0, 0>>, pt2 |-> <<0, 0>>]
        ELSE IF ~pt1_fixed /\ ~pt2_fixed
        THEN [split |-> FALSE,
              seg |-> [seg EXCEPT !.mx1 = new_x1, !.my1 = new_y1,
                                  !.mx2 = new_x2, !.my2 = new_y2],
              pt1 |-> <<0, 0>>, pt2 |-> <<0, 0>>]
        ELSE [split |-> FALSE, seg |-> seg, pt1 |-> <<0, 0>>, pt2 |-> <<0, 0>>]

\* Fault model: the queued original stored with its displaced endpoint, not
\* decomposed
split_segments_direct(seg, pt1, pt2, dx) ==
    <<DuctSegment(pt1[1], pt1[2], pt2[1], pt2[2], seg.flow, seg.vertical_only)>>

\* the second loop: the two segments that replace a queued original
split_segments(seg, pt1, pt2, dx) ==
    IF dx # 0
    THEN LET mid_x == pt2[1]
             mid_y == pt1[2]
         IN  (IF pt1[1] # mid_x
              THEN <<DuctSegment(pt1[1], pt1[2], mid_x, mid_y, seg.flow, FALSE)>>
              ELSE << >>)
             \o
             (IF mid_y # pt2[2]
              THEN <<DuctSegment(mid_x, mid_y, pt2[1], pt2[2], seg.flow, TRUE)>>
              ELSE << >>)
    ELSE LET mid_x == pt1[1]
             mid_y == pt2[2]
         IN  (IF pt1[2] # mid_y
              THEN <<DuctSegment(pt1[1], pt1[2], mid_x, mid_y, seg.flow, TRUE)>>
              ELSE << >>)
             \o
             (IF mid_x # pt2[1]
              THEN <<DuctSegment(mid_x, mid_y, pt2[1], pt2[2], seg.flow, FALSE)>>
              ELSE << >>)

\* what one segment of the connected set leaves in the list
relocated(pts, seg, dx, dy) ==
    LET d == displaced(pts, seg, dx, dy)
    IN  IF d.split THEN SeqToBag(split_segments(seg, d.pt1, d.pt2, dx))
        ELSE SetToBag({d.seg})

RECURSIVE Times(_, _)
Times(bag, n) == IF n = 0 THEN EmptyBag ELSE bag (+) Times(bag, n - 1)

RECURSIVE relocate_all(_, _, _, _, _)
\* equal segments of the list are displaced alike, so the list is rebuilt
\* value by value with the multiplicities it had
relocate_all(pts, segs, todo, dx, dy) ==
    IF todo = {} THEN EmptyBag
    ELSE LET seg == CHOOSE t \in todo : TRUE
         IN  Times(relocated(pts, seg, dx, dy), CopiesIn(seg, segs))
             (+) relocate_all(pts, segs, todo \ {seg}, dx, dy)

\* Fault model: every segment of the list is displaced, connected to the
\* dragged one or not
move_every_segment(pts, segs, base_seg, base_live, dx, dy) ==
    LET live == BagToSet(segs)
        stale == IF base_live THEN EmptyBag
                 ELSE LET d == displaced(pts, base_seg, dx, dy)
                      IN  IF d.split
                          THEN SeqToBag(split_segments(base_seg, d.pt1, d.pt2, dx))
                          ELSE EmptyBag
    IN  relocate_all(pts, segs, live, dx, dy) (+) stale

\* Palette._move_connected_segments.  base_live: base_seg is an element of
\* self.segments; when it is not (it was removed by an earlier split of the
\* gesture) the search still starts from it and its split is appended again,
\* the removal being skipped by `if seg in self.segments`.
move_connected_segments(pts, segs, base_seg, base_live, dx, dy) ==
    LET live == BagToSet(segs)
        connected == bfs_connected({base_seg}, live)
        moved == connected \cap live
        rest == live \ moved
        kept == [t \in rest |-> CopiesIn(t, segs)]
        stale == IF base_live THEN EmptyBag
                 ELSE LET d == displaced(pts, base_seg, dx, dy)
                      IN  IF d.split
                          THEN SeqToBag(split_segments(base_seg, d.pt1, d.pt2, dx))
                          ELSE EmptyBag
    IN  kept (+) relocate_all(pts, segs, moved, dx, dy) (+) stale

\* the segment object self.dragging_segment refers to, after the move
base_after(pts, base_seg, base_live, dx, dy) ==
    LET d == displaced(pts, base_seg, dx, dy)
    IN  [live |-> base_live /\ ~d.split, seg |-> d.seg]

InGrid(seg) ==
    /\ seg.mx1 \in 0..MaxX /\ seg.mx2 \in 0..MaxX
    /\ seg.my1 \in Rows /\ seg.my2 \in Rows

\* ------------------------------------------------- Palette: the handlers
\* A drag gesture holds the left button down from its first motion event to
\* the release, so no other handler runs while dragging_segment is set.
Idle == app = "palette" /\ ~dragging_segment.active

rvars == <<points_list, item_to_point, duct_segments, steiner_nodes, stale_edits, sizing>>

\* Palette.on_left_click, off every segment (a click on a segment returns
\* before anything changes)
on_left_click(cell) ==
    /\ Idle
    /\ Len(points) < 1 + MaxOutlets
    /\ points' = Append(points,
                    IF points = << >>
                    THEN AirPoint(cell[1], cell[2], "inlet",
                                  IF inlet_flow > 0 THEN inlet_flow ELSE 0)
                    ELSE AirPoint(cell[1], cell[2], "outlet", 0))
    /\ segments' = EmptyBag
    /\ op' = "edit"
    /\ UNCHANGED rvars
    /\ UNCHANGED <<app, inlet_flow, dragging_segment, motions>>

\* _find_point_near_model: the first point of the list at the clicked cell
find_point_near_model(pts, cell) ==
    LET hits == {i \in DOMAIN pts : <<pts[i].mx, pts[i].my>> = cell}
    IN  IF hits = {} THEN 0 ELSE CHOOSE i \in hits : \A j \in hits : i <= j

\* Palette.on_right_click with a valid answer (a cancelled or negative answer
\* and a click on the inlet or on no point change nothing)
on_right_click(cell, new_flow) ==
    /\ Idle
    /\ LET target == find_point_near_model(points, cell)
       IN  /\ target # 0
           /\ points[target].kind # "inlet"
           /\ points' = [points EXCEPT ![target].flow = new_flow]
    /\ segments' = EmptyBag
    /\ op' = "edit"
    /\ UNCHANGED rvars
    /\ UNCHANGED <<app, inlet_flow, dragging_segment, motions>>

\* Palette.set_inlet_flow
set_inlet_flow(pts, flow) ==
    IF pts # << >> /\ pts[1].kind = "inlet"
    THEN [pts EXCEPT ![1].flow = flow]
    ELSE pts

\* calculate(): sizes the main duct first, which raises for q <= 0, and only
\* then calls palette.set_inlet_flow(q)
calculate(q) ==
    /\ Idle
    /\ q > 0
    /\ inlet_flow' = q
    /\ points' = set_inlet_flow(points, q)
    /\ op' = "flow"
    /\ UNCHANGED rvars
    /\ UNCHANGED <<app, segments, dragging_segment, motions>>

\* equal_distribution(): palette.set_inlet_flow(q), then
\* Palette.distribute_equal_flow.  The model's flows are integers, so q is
\* drawn from the flows the outlet count divides.
equal_distribution(q) ==
    /\ Idle
    /\ inlet_flow' = q
    /\ LET pts == set_inlet_flow(points, q)
           n_out == Len(pts) - 1
       IN  IF Len(pts) < 2 \/ q <= 0
           THEN /\ points' = pts
                /\ segments' = segments
                /\ op' = "flow"
           ELSE /\ q % n_out = 0
                /\ points' = [i \in DOMAIN pts |->
                                 IF i = 1 THEN [pts[i] EXCEPT !.flow = q]
                                 ELSE [pts[i] EXCEPT !.flow = q \div n_out]]
                /\ segments' = EmptyBag
                /\ op' = "edit"
    /\ UNCHANGED rvars
    /\ UNCHANGED <<app, dragging_segment, motions>>

\* undo_point(): Palette.undo_last_point
undo_last_point ==
    /\ Idle
    /\ points # << >>
    /\ points' = SubSeq(points, 1, Len(points) - 1)
    /\ segments' = EmptyBag
    /\ op' = "edit"
    /\ UNCHANGED rvars
    /\ UNCHANGED <<app, inlet_flow, dragging_segment, motions>>

\* clear_palette(): Palette.clear_all
clear_all ==
    /\ Idle
    /\ points' = << >>
    /\ segments' = EmptyBag
    /\ op' = "edit"
    /\ UNCHANGED rvars
    /\ UNCHANGED <<app, inlet_flow, dragging_segment, motions>>

\* Fault model: the new segments appended to the ones already stored
rebuilt_onto_prior(prior, pts, dp) == prior (+) SeqToBag(network_segments(pts, dp))

\* self.segments.clear() and then the appends of steps 5 to 9
rebuilt(prior, pts, dp) == SeqToBag(network_segments(pts, dp))

\* total_sizing(): Palette.draw_duct_network(dp, r); the material estimate
\* that follows reads the segments and changes nothing
draw_duct_network(dp) ==
    /\ Idle
    /\ IF Len(points) < 2
       THEN /\ segments' = segments
            /\ op' = "build_incomplete"
       ELSE IF points[1].kind # "inlet"
       THEN /\ segments' = EmptyBag
            /\ op' = "build_no_inlet"
       ELSE IF points[1].flow <= 0
       THEN /\ segments' = EmptyBag
            /\ op' = "build_no_flow"
       ELSE IF SelectSeq(Tail(points), IsOutlet) = << >>
       THEN /\ segments' = EmptyBag
            /\ op' = "build_no_outlet"
       ELSE /\ segments' = rebuilt(segments, points, dp)
            /\ op' = "build"
    /\ UNCHANGED rvars
    /\ UNCHANGED <<app, points, inlet_flow, dragging_segment, motions>>

\* Palette.on_left_drag, first motion event of a gesture: the segment under
\* the pointer becomes dragging_segment; the pointer has not moved from
\* drag_start_model yet, so the displacement snaps to zero and it returns
on_left_drag_start(seg) ==
    /\ Idle
    /\ BagIn(seg, segments)
    /\ dragging_segment' = [active |-> TRUE, live |-> TRUE, seg |-> seg,
                            count |-> BagCardinality(segments)]
    /\ op' = "drag_start"
    /\ UNCHANGED rvars
    /\ UNCHANGED <<app, points, inlet_flow, segments, motions>>

\* Palette.on_left_drag, a later motion event whose displacement snaps to
\* d # 0 grid steps (one that snaps to zero returns without a change)
on_left_drag(d) ==
    /\ app = "palette"
    /\ dragging_segment.active
    /\ motions < MaxMotions
    /\ LET seg == dragging_segment.seg
           dx == IF seg.vertical_only THEN d ELSE 0
           dy == IF seg.vertical_only THEN 0 ELSE d
           after == move_connected_segments(points, segments, seg,
                                            dragging_segment.live, dx, dy)
       IN  /\ \A t \in BagToSet(after) : InGrid(t)
           /\ segments' = after
           /\ dragging_segment' =
                  LET b == base_after(points, seg, dragging_segment.live, dx, dy)
                  IN  [dragging_segment EXCEPT !.live = b.live, !.seg = b.seg]
    /\ motions' = motions + 1
    /\ op' = "drag"
    /\ UNCHANGED rvars
    /\ UNCHANGED <<app, points, inlet_flow>>

\* Python's round() of v2 / 2: the nearest integer, a tie going to the even one
round_half_even(v2) ==
    IF v2 % 2 = 0 THEN v2 \div 2
    ELSE IF (v2 \div 2) % 2 = 0 THEN v2 \div 2 ELSE (v2 \div 2) + 1

\* Palette.snap_model along one axis: round(v / GRID_STEP_MODEL) grid steps,
\* for a coordinate of v2 half grid steps
snap_model(v2) == round_half_even(v2)

\* Fault model: the pointer's offset taken as it is, not snapped
snapped_shift_raw(seg, h) == h

\* dx (dy) of on_left_drag in half grid steps, for a pointer h half grid
\* steps from drag_start_model: snapped - base, base the mean of the dragged
\* segment's two coordinates on the axis it moves along
snapped_shift(seg, h) ==
    LET base2 == IF seg.vertical_only THEN seg.mx1 + seg.mx2
                 ELSE seg.my1 + seg.my2
    IN  2 * snap_model(base2 + h) - base2

\* Palette.on_left_drag, a later motion event with the pointer h half grid
\* steps from drag_start_model: nothing happens when the displacement snaps
\* to zero, otherwise the connected segments move by it
on_left_drag_motion(h) ==
    /\ app = "palette"
    /\ dragging_segment.active
    /\ LET d2 == snapped_shift(dragging_segment.seg, h)
       IN  IF d2 = 0
           THEN /\ op' = "drag_still"
                /\ UNCHANGED rvars
                /\ UNCHANGED <<app, points, inlet_flow, segments,
                               dragging_segment, motions>>
           ELSE /\ d2 % 2 = 0
                /\ on_left_drag(d2 \div 2)

\* Palette.on_left_release
on_left_release ==
    /\ app = "palette"
    /\ dragging_segment.active
    /\ dragging_segment' = NotDragging
    /\ op' = "release"
    /\ UNCHANGED rvars
    /\ UNCHANGED <<app, points, inlet_flow, segments, motions>>

\* the router script's state when the Palette script is the one running
RouterIdle ==
    /\ points_list = << >>
    /\ item_to_point = << >>
    /\ duct_segments = {}
    /\ steiner_nodes = << >>
    /\ stale_edits = 0

\* ------------------------------------------------------- Steiner router
_manhattan(a, b) == Abs(a[1] - b[1]) + Abs(a[2] - b[2])

RECURSIVE PrimLoop(_, _, _, _, _)
\* the `for _ in range(n)` loop of _prim_mst; indices are 1-based and
\* parent 0 stands for -1
PrimLoop(pts, in_tree, dist, parent, rounds) ==
    LET n == Len(pts)
        open == {i \in 1..n : i \notin in_tree /\ dist[i] < Unreached}
    IN  IF rounds = 0 \/ open = {} THEN parent
        ELSE LET u == CHOOSE i \in open :
                          \A j \in open : dist[i] < dist[j] \/ (dist[i] = dist[j] /\ i <= j)
                 tree == in_tree \cup {u}
                 closer(v) == v \notin tree /\ _manhattan(pts[u], pts[v]) < dist[v]
             IN  PrimLoop(pts, tree,
                          [v \in 1..n |-> IF closer(v) THEN _manhattan(pts[u], pts[v])
                                          ELSE dist[v]],
                          [v \in 1..n |-> IF closer(v) THEN u ELSE parent[v]],
                          rounds - 1)

HasParent(e) == e[2] # 0

\* edges (v, parent[v]) for v = 2..n
parent_edges(parent) ==
    SelectSeq([k \in 1..(Len(parent) - 1) |-> <<k + 1, parent[k + 1]>>], HasParent)

_prim_mst(pts) ==
    LET n == Len(pts)
    IN  IF n <= 1 THEN << >>
        ELSE parent_edges(PrimLoop(pts, {},
                                   [i \in 1..n |-> IF i = 1 THEN 0 ELSE Unreached],
                                   [i \in 1..n |-> 0], n))

RECURSIVE _mst_length(_, _)
_mst_length(pts, edges) ==
    IF edges = << >> THEN 0
    ELSE _manhattan(pts[Head(edges)[1]], pts[Head(edges)[2]])
         + _mst_length(pts, Tail(edges))

SeqRange(s) == {s[i] : i \in DOMAIN s}

\* all (x, y) with x and y taken from the terminals, x-major, both ascending
_hanan_candidates(terminals) ==
    LET xs == SortedNodes({t[1] : t \in SeqRange(terminals)}, FALSE)
        ys == SortedNodes({t[2] : t \in SeqRange(terminals)}, FALSE)
    IN  IF terminals = << >> THEN << >>
        ELSE [k \in 1..(Len(xs) * Len(ys)) |->
                 <<xs[((k - 1) \div Len(ys)) + 1], ys[((k - 1) % Len(ys)) + 1]>>]

RECURSIVE best_candidate_last(_, _, _)
\* Fault model: the scan replaces the best on `test_L <= best_L`, keeping the
\* last of equally good candidates
best_candidate_last(P, cands, best) ==
    IF cands = << >> THEN best
    ELSE LET cand == Head(cands)
             testP == Append(P, cand)
             test_L == _mst_length(testP, _prim_mst(testP))
         IN  IF cand \in SeqRange(P) THEN best_candidate_last(P, Tail(cands), best)
             ELSE IF test_L <= best.L
                  THEN best_candidate_last(P, Tail(cands),
                                           [found |-> TRUE, s |-> cand, L |-> test_L])
                  ELSE best_candidate_last(P, Tail(cands), best)

RECURSIVE best_candidate(_, _, _)
\* the scan over cand_points: the first candidate with the strictly
\* smallest MST length below best.L
best_candidate(P, cands, best) ==
    IF cands = << >> THEN best
    ELSE LET cand == Head(cands)
             testP == Append(P, cand)
             test_L == _mst_length(testP, _prim_mst(testP))
         IN  IF cand \in SeqRange(P) THEN best_candidate(P, Tail(cands), best)
             ELSE IF test_L < best.L
                  THEN best_candidate(P, Tail(cands),
                                      [found |-> TRUE, s |-> cand, L |-> test_L])
                  ELSE best_candidate(P, Tail(cands), best)

RECURSIVE steiner_loop_uncapped(_, _, _, _)
\* Fault model: the loop runs until no candidate improves, whatever max_add is
steiner_loop_uncapped(P, terminals, rounds, min_improve) ==
    LET base_L == _mst_length(P, _prim_mst(P))
        best == best_candidate(P, _hanan_candidates(terminals),
                               [found |-> FALSE, s |-> <<0, 0>>, L |-> base_L])
    IN  IF ~best.found \/ (base_L - best.L) < min_improve THEN P
        ELSE steiner_loop_uncapped(Append(P, best.s), terminals, rounds - 1,
                                   min_improve)

RECURSIVE steiner_loop(_, _, _, _)
\* the for loop of _iterated_1_steiner with `rounds` iterations left
steiner_loop(P, terminals, rounds, min_improve) ==
    LET base_L == _mst_length(P, _prim_mst(P))
        best == best_candidate(P, _hanan_candidates(terminals),
                               [found |-> FALSE, s |-> <<0, 0>>, L |-> base_L])
    IN  IF rounds = 0 \/ ~best.found \/ (base_L - best.L) < min_improve THEN P
        ELSE steiner_loop(Append(P, best.s), terminals, rounds - 1, min_improve)

\* returns the point list P; the edges are _prim_mst(P)
_iterated_1_steiner(terminals, max_add, min_improve) ==
    steiner_loop(terminals, terminals, max_add, min_improve)

NoneSeg == << >>
ValueError == <<"ValueError">>

Min2(a, b) == IF a <= b THEN a ELSE b
Max2(a, b) == IF a <= b THEN b ELSE a

_norm_seg(x1, y1, x2, y2) ==
    IF x1 = x2 /\ y1 = y2 THEN NoneSeg
    ELSE IF x1 = x2 THEN <<"V", x1, Min2(y1, y2), Max2(y1, y2)>>
    ELSE IF y1 = y2 THEN <<"H", y1, Min2(x1, x2), Max2(x1, x2)>>
    ELSE ValueError

NotNone(seg) == seg # NoneSeg

\* the two L routes from a to b: x then y, y then x
_l_route_options(a, b) ==
    [opt1 |-> SelectSeq(<<_norm_seg(a[1], a[2], b[1], a[2]),
                          _norm_seg(b[1], a[2], b[1], b[2])>>, NotNone),
     opt2 |-> SelectSeq(<<_norm_seg(a[1], a[2], a[1], b[2]),
                          _norm_seg(a[1], b[2], b[1], b[2])>>, NotNone)]

_overlap_score(ducts, option_segs) ==
    Cardinality({i \in DOMAIN option_segs : option_segs[i] \in ducts})

\* Fault model: only the first leg of the chosen L route is stored
_route_edge_first_leg(ducts, a, b) ==
    LET opts == _l_route_options(a, b)
        chosen == IF _overlap_score(ducts, opts.opt2) > _overlap_score(ducts, opts.opt1)
                  THEN opts.opt2
                  ELSE opts.opt1
    IN  ducts \cup {chosen[1]}

\* Fault model: the y-then-x route is chosen on `>=`, ties included
_route_edge_ties_to_opt2(ducts, a, b) ==
    LET opts == _l_route_options(a, b)
        chosen == IF _overlap_score(ducts, opts.opt2) >= _overlap_score(ducts, opts.opt1)
                  THEN opts.opt2
                  ELSE opts.opt1
    IN  ducts \cup SeqRange(chosen)

\* Fault model: both L routes of the edge are stored
_route_edge_both_options(ducts, a, b) ==
    LET opts == _l_route_options(a, b)
    IN  ducts \cup SeqRange(opts.opt1) \cup SeqRange(opts.opt2)

\* _route_edge_and_store: the set after the chosen route is added
_route_edge_and_store(ducts, a, b) ==
    LET opts == _l_route_options(a, b)
        chosen == IF _overlap_score(ducts, opts.opt2) > _overlap_score(ducts, opts.opt1)
                  THEN opts.opt2
                  ELSE opts.opt1
    IN  ducts \cup SeqRange(chosen)

RECURSIVE route_edges(_, _, _)
\* `for i, j in edges: _route_edge_and_store(P[i], P[j])`
route_edges(ducts, P, edges) ==
    IF edges = << >> THEN ducts
    ELSE route_edges(_route_edge_and_store(ducts, P[Head(edges)[1]], P[Head(edges)[2]]),
                     P, Tail(edges))

IsInlet(p) == p.type = "inlet"
IsOutletEntry(p) == p.type = "outlet"

\* _get_terminals_canvas_xy: the inlet first, then the outlets
_get_terminals_canvas_xy(pl) ==
    LET inlets == SelectSeq(pl, IsInlet)
        outlets == SelectSeq(pl, IsOutletEntry)
    IN  <<<<inlets[1].gx_index, inlets[1].gy_index>>>>
        \o [k \in 1..Len(outlets) |-> <<outlets[k].gx_index, outlets[k].gy_index>>]

Routing == app = "router"

\* _on_left_click -> _add_point_at, on a cell no point occupies (a click on
\* an occupied cell returns before anything changes).  The oval id is a
\* canvas item id never used before; ids are opaque, so the least free one
\* stands for it.
_add_point_at(cell) ==
    /\ Routing
    /\ Len(points_list) < MaxRouterPoints
    /\ duct_segments = {} \/ stale_edits < MaxStaleEdits
    /\ \A i \in DOMAIN points_list :
           <<points_list[i].gx_index, points_list[i].gy_index>> # cell
    /\ LET oid == CHOOSE k \in 1..(MaxRouterPoints + 1) :
                      /\ k \notin DOMAIN item_to_point
                      /\ \A j \in 1..(k - 1) : j \in DOMAIN item_to_point
           entry == [oval |-> oid,
                     type |-> IF points_list = << >> THEN "inlet" ELSE "outlet",
                     gx_index |-> cell[1], gy_index |-> cell[2]]
       IN  /\ points_list' = Append(points_list, entry)
           /\ item_to_point' =
                  [o \in DOMAIN item_to_point \cup {oid} |->
                      IF o = oid THEN Len(points_list) + 1 ELSE item_to_point[o]]
    /\ stale_edits' = IF duct_segments = {} THEN 0 ELSE stale_edits + 1
    /\ op' = "edit"
    /\ UNCHANGED <<duct_segments, steiner_nodes>>

\* Fault model: the remaining points keep the types they were created with
retagged_never(popped) == popped

\* the last loop of delete_point: the first point is the inlet, the others
\* are outlets
retagged(popped) ==
    [k \in DOMAIN popped |->
        [popped[k] EXCEPT !.type = IF k = 1 THEN "inlet" ELSE "outlet"]]

\* the popup button of _on_right_click: delete_point(idx) with idx in range
delete_point(idx) ==
    /\ Routing
    /\ idx \in DOMAIN points_list
    /\ duct_segments = {} \/ stale_edits < MaxStaleEdits
    /\ LET popped == [k \in 1..(Len(points_list) - 1) |->
                         IF k < idx THEN points_list[k] ELSE points_list[k + 1]]
       IN  /\ points_list' = retagged(popped)
           /\ item_to_point' =
                  [o \in (DOMAIN item_to_point \ {points_list[idx].oval})
                         \cup {popped[k].oval : k \in DOMAIN popped} |->
                      IF \E k \in DOMAIN popped : popped[k].oval = o
                      THEN CHOOSE k \in DOMAIN popped :
                               /\ popped[k].oval = o
                               /\ \A j \in DOMAIN popped : popped[j].oval = o => j <= k
                      ELSE item_to_point[o]]
    /\ stale_edits' = IF duct_segments = {} THEN 0 ELSE stale_edits + 1
    /\ op' = "edit"
    /\ UNCHANGED <<duct_segments, steiner_nodes>>

\* the clear-duct button: _clear_duct()
_clear_duct ==
    /\ Routing
    /\ duct_segments' = {}
    /\ steiner_nodes' = << >>
    /\ stale_edits' = 0
    /\ op' = "clear_duct"
    /\ UNCHANGED <<points_list, item_to_point>>

\* the clear-palette button of the router
clear_palette ==
    /\ Routing
    /\ points_list' = << >>
    /\ item_to_point' = << >>
    /\ duct_segments' = {}
    /\ steiner_nodes' = << >>
    /\ stale_edits' = 0
    /\ op' = "edit"

IsSteiner(terminals, p) == p \notin SeqRange(terminals)

\* the body of auto_route_and_draw after the terminal check: _clear_duct(),
\* _iterated_1_steiner, then one _route_edge_and_store per MST edge
routed(pl) ==
    LET terminals == _get_terminals_canvas_xy(pl)
        P == _iterated_1_steiner(terminals, MaxAdd, MinImprove)
        not_terminal(p) == IsSteiner(terminals, p)
    IN  [op |-> "route",
         ducts |-> route_edges({}, P, _prim_mst(P)),
         nodes |-> SelectSeq(P, not_terminal),
         stale |-> 0]

\* Fault model: _clear_duct() called before the terminal check
auto_route_clear_first(pl, ducts, nodes, stale) ==
    IF SelectSeq(pl, IsInlet) = << >> \/ SelectSeq(pl, IsOutletEntry) = << >>
    THEN [op |-> "route_rejected", ducts |-> {}, nodes |-> << >>, stale |-> 0]
    ELSE routed(pl)

\* auto_route_and_draw: the outcome, the ducts and the Steiner nodes it leaves
auto_route(pl, ducts, nodes, stale) ==
    IF SelectSeq(pl, IsInlet) = << >> \/ SelectSeq(pl, IsOutletEntry) = << >>
    THEN [op |-> "route_rejected", ducts |-> ducts, nodes |-> nodes, stale |-> stale]
    ELSE routed(pl)

auto_route_and_draw ==
    /\ Routing
    /\ LET r == auto_route(points_list, duct_segments, steiner_nodes, stale_edits)
       IN  /\ duct_segments' = r.ducts
           /\ steiner_nodes' = r.nodes
           /\ stale_edits' = r.stale
           /\ op' = r.op
    /\ UNCHANGED <<points_list, item_to_point>>

PaletteIdle ==
    /\ points = << >>
    /\ inlet_flow = 0
    /\ segments = EmptyBag
    /\ dragging_segment = NotDragging
    /\ motions = 0

InitRouter ==
    /\ app = "router"
    /\ PaletteIdle
    /\ RouterIdle
    /\ sizing = NoCall
    /\ op = "init"

pvars == <<points, inlet_flow, segments, dragging_segment, motions, sizing>>

NextRouter ==
    \/ \E cell \in RouterCells : _add_point_at(cell) /\ UNCHANGED <<app, pvars>>
    \/ \E idx \in 1..MaxRouterPoints : delete_point(idx) /\ UNCHANGED <<app, pvars>>
    \/ _clear_duct /\ UNCHANGED <<app, pvars>>
    \/ clear_palette /\ UNCHANGED <<app, pvars>>
    \/ auto_route_and_draw /\ UNCHANGED <<app, pvars>>

InitPalette ==
    /\ app = "palette"
    /\ points = << >>
    /\ inlet_flow = 0
    /\ segments = EmptyBag
    /\ dragging_segment = NotDragging
    /\ motions = 0
    /\ op = "init"
    /\ RouterIdle
    /\ sizing = NoCall

NextPalette ==
    \/ \E cell \in (IF points = << >> THEN InletCells ELSE Cells) : on_left_click(cell)
    \/ \E cell \in Cells, new_flow \in FlowValues : on_right_click(cell, new_flow)
    \/ \E q \in InletFlowValues : calculate(q)
    \/ \E q \in InletFlowValues : equal_distribution(q)
    \/ undo_last_point
    \/ clear_all
    \/ \E dp \in DpValues : draw_duct_network(dp)

NextDrag ==
    \/ \E dp \in DpValues : draw_duct_network(dp)
    \/ \E seg \in BagToSet(segments) : on_left_drag_start(seg)
    \/ \E d \in Shifts : on_left_drag(d)
    \/ on_left_release

\* terminal lists the clicks and flow entries of the Palette lead to: the
\* inlet first, then outlets with a positive flow
RECURSIVE OutletLists(_)
OutletLists(n) ==
    IF n = 0 THEN {<< >>}
    ELSE LET shorter == OutletLists(n - 1)
         IN  shorter \cup
             {Append(s, AirPoint(c[1], c[2], "outlet", 1)) :
                 s \in {t \in shorter : Len(t) = n - 1}, c \in Cells}

InitDrag ==
    /\ app = "palette"
    /\ inlet_flow = 2
    /\ points \in {<<AirPoint(c[1], c[2], "inlet", 2)>> \o s :
                      c \in InletCells, s \in OutletLists(MaxDragOutlets)}
    /\ segments = EmptyBag
    /\ dragging_segment = NotDragging
    /\ motions = 0
    /\ op = "init"
    /\ RouterIdle
    /\ sizing = NoCall

vars == <<app, points, inlet_flow, segments, dragging_segment, motions,
          points_list, item_to_point, duct_segments, steiner_nodes, stale_edits,
          sizing, op>>

SpecPalette == InitPalette /\ [][NextPalette]_vars

SpecDrag == InitDrag /\ [][NextDrag]_vars

SpecRouter == InitRouter /\ [][NextRouter]_vars

Init == InitPalette \/ InitRouter

Next == NextPalette \/ NextRouter

Spec == Init /\ [][Next]_vars

\* both builders and the drag relocator, from terminal lists already placed
SpecLayout == (InitDrag \/ InitRouter) /\ [][NextDrag \/ NextRouter]_vars

\* ------------------------------------------------- graphs of segment lists
position(p) == <<p.mx, p.my>>

\* the two endpoints of a router segment ("V", x, y1, y2) / ("H", y, x1, x2)
duct_endpoints(s) ==
    IF s[1] = "V" THEN {<<s[2], s[3]>>, <<s[2], s[4]>>}
    ELSE {<<s[3], s[2]>>, <<s[4], s[2]>>}

RECURSIVE reach(_, _)
\* the positions joined to `nodes` by edges (sets of one or two endpoints)
\* that share endpoints exactly
reach(nodes, edges) ==
    LET more == UNION {e \in edges : e \cap nodes # {}}
    IN  IF more \subseteq nodes THEN nodes ELSE reach(nodes \cup more, edges)

segment_edges(segs) == {seg_endpoints(s) : s \in BagToSet(segs)}

outlets_connected(pts, segs) ==
    \A i \in 2..Len(pts) :
        position(pts[i]) \in reach({position(pts[1])}, segment_edges(segs))

distinct_positions(pts) ==
    \A i, j \in DOMAIN pts : i # j => position(pts[i]) # position(pts[j])

non_zero_length(s) == s.mx1 # s.mx2 \/ s.my1 # s.my2

\* the segments of non-zero length, with their multiplicities
proper_segments(segs) ==
    LET keep == {s \in BagToSet(segs) : non_zero_length(s)}
    IN  [s \in keep |-> CopiesIn(s, segs)]

\* connected, and one edge fewer than nodes
is_tree(segs) ==
    LET edges == segment_edges(segs)
        nodes == UNION edges
    IN  /\ nodes # {}
        /\ reach({CHOOSE n \in nodes : TRUE}, edges) = nodes
        /\ BagCardinality(segs) = Cardinality(nodes) - 1

\* ------------------------------------------------- the spine a build stored
side_outlets(pts, desc) ==
    LET inlet == pts[1]
        on_side(ot) == IF desc THEN ot.mx < inlet.mx ELSE ot.mx > inlet.mx
    IN  SelectSeq(SelectSeq(Tail(pts), IsOutlet), on_side)

\* the spine sub-segments of one side in the order the build appended them,
\* nearest the inlet first; dp is a friction rate the stored list was built with
stored_spine(desc) ==
    LET dp == CHOOSE d \in DpValues : SeqToBag(network_segments(points, d)) = segments
    IN  spine_segments(points[1],
                       group_map(group_outlets_by_y(side_outlets(points, desc)), desc),
                       desc, dp)

\* what the sub-segment starting at x1 has to carry: every outlet of the side
\* for the one that starts at the inlet, otherwise the outlets of the groups
\* whose junction lies strictly beyond x1
flow_beyond(pts, desc, x1) ==
    LET groups == group_outlets_by_y(side_outlets(pts, desc))
        beyond(g) == IF desc THEN first_x(g, desc) < x1 ELSE first_x(g, desc) > x1
    IN  IF x1 = pts[1].mx THEN SumFlow(side_outlets(pts, desc))
        ELSE SumSeq([g \in DOMAIN groups |->
                        IF beyond(groups[g]) THEN SumFlow(groups[g]) ELSE 0])

non_increasing(flows) ==
    \A k \in 1..(Len(flows) - 1) : flows[k] >= flows[k + 1]

\* ----------------------------------------------------------------- claims
\* C1: after a build, every spine sub-segment of either side carries the sum
\* of the flows of the outlets strictly downstream of its start: all outlets of
\* the side for the sub-segment at the inlet, the outlets of the groups whose
\* junction lies beyond x1 for one starting at x1, several groups branching
\* off at the same x included.
C1_SpineCarriesDownstreamFlow ==
    op = "build" =>
        \A desc \in BOOLEAN :
            \A k \in DOMAIN stored_spine(desc) :
                /\ BagIn(stored_spine(desc)[k], segments)
                /\ stored_spine(desc)[k].flow =
                       flow_beyond(points, desc, stored_spine(desc)[k].mx1)

\* C2: after a build, along each side of the spine the flows of successive
\* sub-segments, nearest the inlet first, never increase.
C2_SpineFlowNonIncreasing ==
    op = "build" =>
        \A desc \in BOOLEAN :
            /\ \A k \in DOMAIN stored_spine(desc) :
                   BagIn(stored_spine(desc)[k], segments)
            /\ non_increasing(Flows(stored_spine(desc)))

\* a build that stored a spine of two sub-segments on one side, the second
\* carrying less than the first
C2_TwoSubSegments ==
    /\ op = "build"
    /\ \E desc \in BOOLEAN :
           /\ Len(stored_spine(desc)) >= 2
           /\ stored_spine(desc)[1].flow > stored_spine(desc)[2].flow

\* C3: after a build over terminals at pairwise distinct positions, every
\* outlet with a positive flow, that stored segments, the stored segments of
\* non-zero length form one acyclic tree (connected over exactly shared
\* endpoints, one segment fewer than endpoints) that contains the inlet and
\* every outlet.
C3_BuildIsTree ==
    (/\ op = "build"
     /\ segments # EmptyBag
     /\ distinct_positions(points)
     /\ \A i \in 2..Len(points) : points[i].flow > 0)
    => /\ is_tree(proper_segments(segments))
       /\ \A i \in DOMAIN points :
              position(points[i]) \in UNION segment_edges(proper_segments(segments))

\* C4: every stored segment is axis-aligned and, in the spine/branch palette,
\* its vertical_only flag agrees with its geometry; the router stores no
\* segment that is not a normalized "V" or "H" one.
C4_AxisAligned ==
    /\ \A s \in BagToSet(segments) :
           /\ s.mx1 = s.mx2 \/ s.my1 = s.my2
           /\ s.vertical_only => s.mx1 = s.mx2
           /\ ~s.vertical_only => s.my1 = s.my2
    /\ \A s \in duct_segments : s # ValueError /\ s[1] \in {"V", "H"} /\ s[3] < s[4]

\* a motion event displaced the free end of the dragged segment off its axis,
\* and the segment was replaced
C4_DiagonalDisplacement ==
    /\ op = "drag"
    /\ ~dragging_segment.live
    /\ segments # EmptyBag

\* C5: right after a terminal change (a terminal added, deleted or undone, an
\* outlet's flow changed, the palette cleared) no duct segment is stored, in
\* the spine/branch palette and in the router palette.
C5_EditDiscardsSegments ==
    op = "edit" => segments = EmptyBag /\ duct_segments = {}

\* C6: a build requested with no inlet or with no outlet changes neither
\* palette's stored segments.
C6_RejectedBuildKeepsSegments ==
    [][op' \in {"build_incomplete", "build_no_inlet", "build_no_outlet", "route_rejected"}
       => segments' = segments /\ duct_segments' = duct_segments]_vars

\* a router build was rejected while an earlier network was stored
C6_RejectedWithNetwork ==
    /\ op = "route_rejected"
    /\ duct_segments # {}

\* a segment from a junction (no terminal there) up or down to an outlet
is_riser(pts, seg) ==
    /\ seg.vertical_only
    /\ non_zero_length(seg)
    /\ \E i \in 2..Len(pts) :
           \/ position(pts[i]) = <<seg.mx1, seg.my1>>
              /\ ~is_attached_to_point(pts, seg.mx2, seg.my2)
           \/ position(pts[i]) = <<seg.mx2, seg.my2>>
              /\ ~is_attached_to_point(pts, seg.mx1, seg.my1)

\* C7: when a gesture that dragged the riser of a one-outlet network sideways
\* is released, the riser has been replaced by one horizontal and one vertical
\* segment, the terminals are where they were, and the list holds one segment
\* more than when the gesture began, however many motion events it had.
C7_RiserSplitOnce ==
    [][(/\ op' = "release"
        /\ Len(points) = 2
        /\ is_riser(points, dragging_segment.seg)
        /\ ~dragging_segment.live)
       => /\ points' = points
          /\ BagCardinality(segments') = dragging_segment.count + 1]_vars

\* C8: a motion event moves no terminal, leaves every terminal that was an
\* endpoint of a segment an endpoint of a segment, and leaves every segment
\* with both endpoints on terminals in the list unchanged.
C8_TerminalsStayAttached ==
    [][op' = "drag"
       => /\ points' = points
          /\ \A i \in DOMAIN points :
                 position(points[i]) \in UNION segment_edges(segments)
                 => position(points[i]) \in UNION segment_edges(segments')
          /\ \A s \in BagToSet(segments) :
                 (/\ is_attached_to_point(points, s.mx1, s.my1)
                  /\ is_attached_to_point(points, s.mx2, s.my2))
                 => CopiesIn(s, segments') >= CopiesIn(s, segments)]_vars

\* a motion event replaced the dragged segment in a network that also holds a
\* segment of non-zero length with both endpoints on terminals
C8_SplitBesidePinnedSegment ==
    /\ op = "drag"
    /\ ~dragging_segment.live
    /\ \E s \in BagToSet(segments) :
           /\ non_zero_length(s)
           /\ is_attached_to_point(points, s.mx1, s.my1)
           /\ is_attached_to_point(points, s.mx2, s.my2)

\* C9: a motion event on a network in which every outlet is joined to the
\* inlet over exactly shared endpoints leaves every outlet joined to the inlet.
C9_DragKeepsConnectivity ==
    [][(op' = "drag" /\ outlets_connected(points, segments))
       => outlets_connected(points', segments')]_vars

\* the second motion event of a gesture on a two-outlet network that is
\* still connected
C9_ConnectedAfterTwoMotions ==
    /\ op = "drag"
    /\ motions >= 2
    /\ Len(points) = 3
    /\ distinct_positions(points)
    /\ segments # EmptyBag
    /\ outlets_connected(points, segments)

\* C10: after a router build the stored segments are one connected structure
\* and every terminal and every accepted Steiner point is an endpoint of a
\* stored segment.
C10_RouterSpans ==
    op = "route" =>
        LET edges == {duct_endpoints(s) : s \in duct_segments}
            nodes == SeqRange(_get_terminals_canvas_xy(points_list))
                     \cup SeqRange(steiner_nodes)
        IN  /\ nodes \subseteq UNION edges
            /\ \A n \in UNION edges : reach({n}, edges) = UNION edges

\* a router build that accepted a Steiner point
C10_SteinerAccepted ==
    /\ op = "route"
    /\ steiner_nodes # << >>
    /\ Cardinality(duct_segments) >= 3

\* ------------------------------------------- router builds of placed lists
\* grid points wide enough for the terminals (0,0), (4,0), (4,3)
WideCells == {0, 2, 4} \X {0, 3}

RECURSIVE PointLists(_)
\* the lists of n or fewer points at pairwise distinct cells
PointLists(n) ==
    IF n = 0 THEN {<< >>}
    ELSE LET shorter == PointLists(n - 1)
         IN  shorter \cup
             UNION {{Append(s, c) : c \in WideCells \ SeqRange(s)} :
                        s \in {t \in shorter : Len(t) = n - 1}}

\* the points_list that _add_point_at leaves after one click per cell of `cells`
placed(cells) ==
    [k \in DOMAIN cells |->
        [oval |-> k,
         type |-> IF k = 1 THEN "inlet" ELSE "outlet",
         gx_index |-> cells[k][1], gy_index |-> cells[k][2]]]

InitPlaced ==
    /\ app = "router"
    /\ PaletteIdle
    /\ \E cells \in PointLists(MaxRouterPoints) :
           /\ points_list = placed(cells)
           /\ item_to_point = [o \in DOMAIN cells |-> o]
    /\ duct_segments = {}
    /\ steiner_nodes = << >>
    /\ stale_edits = 0
    /\ sizing = NoCall
    /\ op = "init"

NextPlaced ==
    \/ auto_route_and_draw /\ UNCHANGED <<app, pvars>>
    \/ _clear_duct /\ UNCHANGED <<app, pvars>>

SpecPlaced == InitPlaced /\ [][NextPlaced]_vars

RECURSIVE total_length(_)
\* the summed Manhattan length of a set of router segments
total_length(ducts) ==
    IF ducts = {} THEN 0
    ELSE LET s == CHOOSE t \in ducts : TRUE
         IN  (s[4] - s[3]) + total_length(ducts \ {s})

\* C11: the segments a router build stores are together no longer than the
\* MST over the terminals alone, each edge routed as its own L; for the inlet
\* (0,0) and the outlets (4,0) and (4,3) the build stores a length of 7, in
\* two segments that both end at (4,0).
C11_RoutedLengthBounded ==
    op = "route" =>
        LET terminals == _get_terminals_canvas_xy(points_list)
        IN  /\ total_length(duct_segments)
                   <= _mst_length(terminals, _prim_mst(terminals))
            /\ terminals = << <<0, 0>>, <<4, 0>>, <<4, 3>> >>
               => /\ total_length(duct_segments) = 7
                  /\ total_length(duct_segments) <= 14
                  /\ Cardinality(duct_segments) = 2
                  /\ \A s \in duct_segments : <<4, 0>> \in duct_endpoints(s)

\* the build over the inlet (0,0) and the outlets (4,0) and (4,3)
C11_ExampleRouted ==
    /\ op = "route"
    /\ _get_terminals_canvas_xy(points_list) = << <<0, 0>>, <<4, 0>>, <<4, 3>> >>
    /\ duct_segments # {}

\* C12: a completed build leaves exactly the segments its terminals and
\* configuration determine, whatever was stored before it: the spine/branch
\* builder after drags relocated segments, the router after a network of
\* other terminals was stored.
C12_BuildIsFunctionOfTerminals ==
    /\ op = "build" =>
           \E dp \in DpValues : segments = SeqToBag(network_segments(points, dp))
    /\ op = "route" =>
           LET terminals == _get_terminals_canvas_xy(points_list)
               P == _iterated_1_steiner(terminals, MaxAdd, MinImprove)
           IN  duct_segments = route_edges({}, P, _prim_mst(P))

\* a build that ran after drag motions had relocated segments
C12_BuildAfterDrag ==
    /\ op = "build"
    /\ motions > 0
    /\ segments # EmptyBag

\* C13: after a build with a friction rate that sizes every positive airflow,
\* over an inlet and one group of two outlets on one side of it of which
\* exactly one has zero airflow, the outlet with the positive airflow is joined
\* to the inlet by the stored segments (only the zero-airflow outlet's own
\* stub is left out).
C13_ZeroFlowSkipsOnlyOwnStub ==
    (/\ op = "build"
     /\ segments = SeqToBag(network_segments(points, 1))
     /\ Len(points) = 3
     /\ distinct_positions(points)
     /\ \E desc \in BOOLEAN :
            /\ Len(side_outlets(points, desc)) = 2
            /\ Len(group_outlets_by_y(side_outlets(points, desc))) = 1
     /\ \E i, j \in 2..3 : points[i].flow = 0 /\ points[j].flow > 0)
    => \A j \in 2..3 :
           points[j].flow > 0 =>
               position(points[j]) \in
                   reach({position(points[1])}, segment_edges(segments))

\* C14: a build over an inlet with a positive airflow and at least one outlet
\* completes although the outlets' airflows do not add up to the inlet's, and
\* the segments it stores, carried airflows included, are the ones the builder
\* produces for every other positive inlet airflow as well.
C14_ImbalanceOnlyWarns ==
    [][(/\ Idle
        /\ op' \in {"build", "build_incomplete", "build_no_inlet",
                    "build_no_flow", "build_no_outlet"}
        /\ Len(points) >= 2
        /\ points[1].kind = "inlet"
        /\ points[1].flow > 0
        /\ SelectSeq(Tail(points), IsOutlet) # << >>
        /\ SumFlow(SelectSeq(Tail(points), IsOutlet)) # points[1].flow)
       => /\ op' = "build"
          /\ \E dp \in DpValues :
                 \A q \in {f \in InletFlowValues : f > 0} :
                     segments' = SeqToBag(network_segments(set_inlet_flow(points, q), dp))]_vars

\* a stored network whose outlets' airflows do not add up to the inlet's
C14_BuiltUnbalanced ==
    /\ op = "build"
    /\ segments # EmptyBag
    /\ SumFlow(SelectSeq(Tail(points), IsOutlet)) # points[1].flow

\* C15: whenever a terminal exists, the first terminal of the list is the only
\* one tagged inlet and every other one is tagged outlet, in the spine/branch
\* palette and in the router palette, after any placements, deletions, undos
\* and clears; the router's item_to_point holds exactly the ovals of the
\* listed points, each mapped to the position of its point.
C15_FirstTerminalIsInlet ==
    /\ \A i \in DOMAIN points :
           points[i].kind = IF i = 1 THEN "inlet" ELSE "outlet"
    /\ \A i \in DOMAIN points_list :
           /\ points_list[i].type = IF i = 1 THEN "inlet" ELSE "outlet"
           /\ points_list[i].oval \in DOMAIN item_to_point
           /\ item_to_point[points_list[i].oval] = i
    /\ DOMAIN item_to_point = {points_list[i].oval : i \in DOMAIN points_list}

\* the router's list after its first point was deleted: the point created
\* second, as an outlet, is now first and tagged inlet
C15_InletDeleted ==
    /\ Len(points_list) = 2
    /\ points_list[1].oval = 2
    /\ points_list[1].type = "inlet"

\* ---------------------------------------------------------- duct sizing
\* Lengths are integers in units of 1 / UnitsPerMm millimetre.  The sizing
\* functions take real powers; a positive real x is held exactly, as the
\* factors of the numerator and of the denominator of x^8, and compared by
\* multiplying these out in multi-digit arithmetic.  The source computes in
\* IEEE doubles, which agree with the exact values except in the last bits
\* and beyond the double range.
MaxValue == 12
MaxRatio == 4
UnitsPerMm == 2
StepValues == {2, 5}
SizingValues == (0 - 1)..MaxValue
RatioValues == (0 - 1)..MaxRatio

RECURSIVE BigOf(_)
\* a natural number as its digits in base 10000, least significant first
BigOf(n) == IF n = 0 THEN << >> ELSE <<n % 10000>> \o BigOf(n \div 10000)

RECURSIVE BigMulSmall(_, _, _)
BigMulSmall(a, k, carry) ==
    IF a = << >> THEN BigOf(carry)
    ELSE LET t == a[1] * k + carry
         IN  <<t % 10000>> \o BigMulSmall(Tail(a), k, t \div 10000)

RECURSIVE BigProd(_)
\* the product of a list of small naturals
BigProd(factors) ==
    IF factors = << >> THEN <<1>>
    ELSE BigMulSmall(BigProd(Tail(factors)), Head(factors), 0)

RECURSIVE BigGeFrom(_, _, _)
BigGeFrom(a, b, i) ==
    LET da == IF i <= Len(a) THEN a[i] ELSE 0
        db == IF i <= Len(b) THEN b[i] ELSE 0
    IN  IF i = 0 THEN TRUE
        ELSE IF da # db THEN da > db
        ELSE BigGeFrom(a, b, i - 1)

BigGe(a, b) == BigGeFrom(a, b, Max2(Len(a), Len(b)))

Power(t, n) == [k \in 1..n |-> t]

\* the real x with x^8 = product(num) / product(den)
Real(num, den) == <<num, den>>

num(x) == x[1]

den(x) == x[2]

\* the integer t >= 0 as a real
Exact(t) == Real(Power(t, 8), << >>)

\* x >= y
real_ge(x, y) == BigGe(BigProd(num(x) \o den(y)), BigProd(num(y) \o den(x)))

\* Fault model: the friction rate multiplied in instead of divided out,
\* D = 1000 * (C * q^1.9 * dp)^0.199
calc_circular_diameter_product(q_m3h, dp_mmAq_per_m) ==
    IF q_m3h <= 0 THEN ValueError
    ELSE IF dp_mmAq_per_m <= 0 THEN ValueError
    ELSE Real(Power(q_m3h, 19) \o Power(dp_mmAq_per_m, 10), << >>)

\* calc_circular_diameter: D = 1000 * (C * q^1.9 / dp)^0.199.  D is held as
\* (q^1.9 / dp)^10 = q^19 / dp^10, of which it is a strictly increasing
\* function (C > 0): two diameters compare as these do, with real_ge.
calc_circular_diameter(q_m3h, dp_mmAq_per_m) ==
    IF q_m3h <= 0 THEN ValueError
    ELSE IF dp_mmAq_per_m <= 0 THEN ValueError
    ELSE Real(Power(q_m3h, 19), Power(dp_mmAq_per_m, 10))

RECURSIVE math_ceil(_, _, _)
\* math.ceil(x / step) for a real x >= 0: the least k >= n with k * step >= x
math_ceil(x, step, n) ==
    IF real_ge(Exact(n * step), x) THEN n ELSE math_ceil(x, step, n + 1)

RECURSIVE math_floor(_, _, _)
\* math.floor(x / step) for a real x >= 0: the greatest k >= n with k * step <= x
math_floor(x, step, n) ==
    IF real_ge(x, Exact((n + 1) * step)) THEN math_floor(x, step, n + 1) ELSE n

round_step_up(x, step) == math_ceil(x, step, 0) * step

\* Fault model: the result raised to one step
round_step_down_floored(x, step) == Max2(math_floor(x, step, 0) * step, step)

round_step_down(x, step) == math_floor(x, step, 0) * step

\* Fault model: rejected only when both sides are non-positive
rect_equiv_diameter_lenient(a_mm, b_mm) ==
    IF a_mm <= 0 /\ b_mm <= 0 THEN ValueError
    ELSE Real(Power(13, 8) \o Power(a_mm * b_mm, 5),
              Power(10, 8) \o Power(a_mm + b_mm, 2))

\* rect_equiv_diameter: De = 1.30 * (a*b)^0.625 / (a+b)^0.25, so
\* De^8 = 13^8 * (a*b)^5 / (10^8 * (a+b)^2)
rect_equiv_diameter(a_mm, b_mm) ==
    IF a_mm <= 0 \/ b_mm <= 0 THEN ValueError
    ELSE Real(Power(13, 8) \o Power(a_mm * b_mm, 5),
              Power(10, 8) \o Power(a_mm + b_mm, 2))

\* int(round(v)) of a length v: Python rounds to the nearest whole
\* millimetre, a half to the even one; the result is in millimetres
int_round(v) ==
    LET whole == v \div UnitsPerMm
        rest == v % UnitsPerMm
    IN  IF 2 * rest < UnitsPerMm THEN whole
        ELSE IF 2 * rest > UnitsPerMm THEN whole + 1
        ELSE IF whole % 2 = 0 THEN whole ELSE whole + 1

\* a_theo = De_target * (1 + r)^0.25 / (1.30 * r^0.625) and b_theo = r * a_theo
a_theo(D1, r) == Real(Power(10 * D1, 8) \o Power(1 + r, 2), Power(13, 8) \o Power(r, 5))

b_theo(D1, r) == Real(Power(r, 8) \o num(a_theo(D1, r)), den(a_theo(D1, r)))

\* candidate 1 (small_up, big_down) and candidate 2 (a_up, b_up)
candidates(D1, aspect_ratio, step) ==
    LET a == a_theo(D1, aspect_ratio)
        b == b_theo(D1, aspect_ratio)
        theo_big == IF real_ge(a, b) THEN a ELSE b
        theo_small == IF real_ge(a, b) THEN b ELSE a
    IN  [small_up |-> round_step_up(theo_small, step),
         big_down |-> Max2(round_step_down(theo_big, step), step),
         a_up |-> round_step_up(a, step),
         b_up |-> round_step_up(b, step)]

\* size_rect_from_D1: (sel_big, sel_small) as returned, in millimetres.  The
\* three figures returned after them (De_sel and the theoretical sides, each
\* rounded to 0.1) go to the result text only.
size_rect_from_D1(D1, aspect_ratio, step) ==
    IF D1 <= 0 THEN ValueError
    ELSE IF aspect_ratio <= 0 THEN ValueError
    ELSE LET c == candidates(D1, aspect_ratio, step)
             De1 == rect_equiv_diameter(c.small_up, c.big_down)
         IN  IF real_ge(De1, Exact(D1))
             THEN <<int_round(Max2(c.small_up, c.big_down)),
                    int_round(Min2(c.small_up, c.big_down))>>
             ELSE <<int_round(Max2(c.a_up, c.b_up)),
                    int_round(Min2(c.a_up, c.b_up))>>

\* one call of a sizing function on the arguments drawn at the start
called(fn, result) == [fn |-> fn, args |-> sizing.args, result |-> result]

call_calc_circular_diameter ==
    /\ sizing.fn = "input"
    /\ sizing' = called("calc_circular_diameter",
                        calc_circular_diameter(sizing.args[1], sizing.args[2]))
    /\ UNCHANGED <<app, points, inlet_flow, segments, dragging_segment, motions,
                   points_list, item_to_point, duct_segments, steiner_nodes,
                   stale_edits, op>>

call_round_step_up ==
    /\ sizing.fn = "input"
    /\ sizing.args[1] >= 0
    /\ sizing' = called("round_step_up",
                        round_step_up(Exact(sizing.args[1]), sizing.args[3]))
    /\ UNCHANGED <<app, points, inlet_flow, segments, dragging_segment, motions,
                   points_list, item_to_point, duct_segments, steiner_nodes,
                   stale_edits, op>>

call_round_step_down ==
    /\ sizing.fn = "input"
    /\ sizing.args[1] >= 0
    /\ sizing' = called("round_step_down",
                        round_step_down(Exact(sizing.args[1]), sizing.args[3]))
    /\ UNCHANGED <<app, points, inlet_flow, segments, dragging_segment, motions,
                   points_list, item_to_point, duct_segments, steiner_nodes,
                   stale_edits, op>>

call_rect_equiv_diameter ==
    /\ sizing.fn = "input"
    /\ sizing' = called("rect_equiv_diameter",
                        rect_equiv_diameter(sizing.args[1], sizing.args[2]))
    /\ UNCHANGED <<app, points, inlet_flow, segments, dragging_segment, motions,
                   points_list, item_to_point, duct_segments, steiner_nodes,
                   stale_edits, op>>

call_size_rect_from_D1 ==
    /\ sizing.fn = "input"
    /\ sizing' = called("size_rect_from_D1",
                        size_rect_from_D1(sizing.args[1], sizing.args[2], sizing.args[3]))
    /\ UNCHANGED <<app, points, inlet_flow, segments, dragging_segment, motions,
                   points_list, item_to_point, duct_segments, steiner_nodes,
                   stale_edits, op>>

InitSizing ==
    /\ app = "router"
    /\ PaletteIdle
    /\ RouterIdle
    /\ op = "init"
    /\ sizing \in {[fn |-> "input", args |-> <<x, y, step>>, result |-> << >>] :
                      x \in SizingValues, y \in RatioValues, step \in StepValues}

NextSizing ==
    \/ call_calc_circular_diameter
    \/ call_round_step_up
    \/ call_round_step_down
    \/ call_rect_equiv_diameter
    \/ call_size_rect_from_D1

SpecSizing == InitSizing /\ [][NextSizing]_vars

\* C16: calc_circular_diameter raises ValueError exactly when the airflow or
\* the friction rate is <= 0, rect_equiv_diameter exactly when a side is <= 0,
\* size_rect_from_D1 exactly when the diameter or the aspect ratio is <= 0;
\* on positive arguments each returns a value.
C16_NonPositiveRejected ==
    LET x == sizing.args[1]
        y == sizing.args[2]
    IN  /\ sizing.fn \in {"calc_circular_diameter", "rect_equiv_diameter"} =>
               /\ (x <= 0 \/ y <= 0) => sizing.result = ValueError
               /\ (x > 0 /\ y > 0) =>
                      /\ sizing.result # ValueError
                      /\ real_ge(sizing.result, sizing.result)
        /\ sizing.fn = "size_rect_from_D1" =>
               /\ (x <= 0 \/ y <= 0) => sizing.result = ValueError
               /\ (x > 0 /\ y > 0) =>
                      /\ sizing.result # ValueError
                      /\ sizing.result[1] \in Int
                      /\ sizing.result[2] \in Int

\* rect_equiv_diameter called with one positive side and one that is not
C16_OneSideRejected ==
    /\ sizing.fn = "rect_equiv_diameter"
    /\ sizing.args[1] > 0
    /\ sizing.args[2] <= 0
    /\ sizing.result = ValueError

\* C17: for x > 0 and step > 0, round_step_up(x, step) is the smallest
\* multiple of step that is >= x, and round_step_down(x, step) is the largest
\* multiple of step that is <= x, but never less than one step.
C17_RoundToStep ==
    LET x == sizing.args[1]
        step == sizing.args[3]
    IN  x > 0 =>
           /\ sizing.fn = "round_step_up" =>
                  /\ sizing.result % step = 0
                  /\ sizing.result >= x
                  /\ sizing.result - step < x
           /\ sizing.fn = "round_step_down" =>
                  sizing.result = Max2((x \div step) * step, step)

\* C17 as the code has it: round_step_up(x, step) is the smallest multiple of
\* step that is >= x; round_step_down(x, step) is the largest multiple of
\* step that is <= x, which is 0 for x < step; the floor of one step is put on
\* the rounded-down side by size_rect_from_D1.
C17_RoundDownMayBeZero ==
    LET x == sizing.args[1]
        step == sizing.args[3]
    IN  x > 0 =>
           /\ sizing.fn = "round_step_up" =>
                  /\ sizing.result % step = 0
                  /\ sizing.result >= x
                  /\ sizing.result - step < x
           /\ sizing.fn = "round_step_down" =>
                  /\ sizing.result % step = 0
                  /\ sizing.result <= x
                  /\ x < sizing.result + step
                  /\ x < step => sizing.result = 0
           /\ (sizing.fn = "size_rect_from_D1" /\ sizing.args[2] > 0) =>
                  candidates(x, sizing.args[2], step).big_down >= step

\* round_step_down called with 0 < x < step
C17_RoundedDownBelowStep ==
    /\ sizing.fn = "round_step_down"
    /\ sizing.args[1] > 0
    /\ sizing.args[1] < sizing.args[3]
    /\ sizing.result = 0

\* C18: for a diameter D > 0, an aspect ratio r > 0 and a step,
\* size_rect_from_D1 returns two sides that are positive multiples of the
\* step, the first >= the second; they are candidate 1 (smaller side rounded
\* up, larger side rounded down) exactly when candidate 1's equivalent
\* diameter is >= D, and then the equivalent diameter of the returned sides is
\* >= D; otherwise they are candidate 2 (both sides rounded up).
C18_SidesAreStepMultiples ==
    LET D == sizing.args[1]
        r == sizing.args[2]
        step == sizing.args[3]
        big == sizing.result[1] * UnitsPerMm
        small == sizing.result[2] * UnitsPerMm
        c == candidates(D, r, step)
        chosen1 == real_ge(rect_equiv_diameter(c.small_up, c.big_down), Exact(D))
    IN  (sizing.fn = "size_rect_from_D1" /\ D > 0 /\ r > 0) =>
           /\ small > 0
           /\ big >= small
           /\ big % step = 0
           /\ small % step = 0
           /\ chosen1 => /\ {big, small} = {c.small_up, c.big_down}
                          /\ real_ge(rect_equiv_diameter(big, small), Exact(D))
           /\ ~chosen1 => {big, small} = {c.a_up, c.b_up}

\* C19: for an airflow q > 0 and a friction rate dp > 0, the diameter
\* calc_circular_diameter returns is not above the one it returns for any
\* larger airflow at the same friction rate, and not below the one it returns
\* for any larger friction rate at the same airflow.
C19_DiameterMonotone ==
    LET q == sizing.args[1]
        dp == sizing.args[2]
    IN  (sizing.fn = "calc_circular_diameter" /\ q > 0 /\ dp > 0) =>
           /\ \A q2 \in q..MaxValue :
                  real_ge(calc_circular_diameter(q2, dp), sizing.result)
           /\ \A dp2 \in dp..MaxRatio :
                  real_ge(sizing.result, calc_circular_diameter(q, dp2))

\* a diameter that a larger airflow strictly raises and a larger friction
\* rate strictly lowers
C19_DiameterChanges ==
    /\ sizing.fn = "calc_circular_diameter"
    /\ sizing.args[1] > 0
    /\ sizing.args[1] < MaxValue
    /\ sizing.args[2] > 0
    /\ sizing.args[2] < MaxRatio
    /\ ~real_ge(sizing.result,
                calc_circular_diameter(sizing.args[1] + 1, sizing.args[2]))
    /\ ~real_ge(calc_circular_diameter(sizing.args[1], sizing.args[2] + 1),
                sizing.result)

\* C20: a router build ends with at most max_add (30) Steiner points added,
\* and no more than k when the loop is run with max_add = k; each accepted
\* point lowers the MST length over the points so far by at least
\* min_improve, so the MST length over the final points is not above the one
\* over the terminals alone.
C20_SteinerLoopBounded ==
    op = "route" =>
        LET terminals == _get_terminals_canvas_xy(points_list)
            upto(k) == terminals \o SubSeq(steiner_nodes, 1, k)
            L(k) == _mst_length(upto(k), _prim_mst(upto(k)))
        IN  /\ Len(steiner_nodes) <= MaxAdd
            /\ \A k \in 0..Len(steiner_nodes) :
                   Len(_iterated_1_steiner(terminals, k, MinImprove))
                       <= Len(terminals) + k
            /\ \A k \in 1..Len(steiner_nodes) : L(k - 1) - L(k) >= MinImprove
            /\ L(Len(steiner_nodes)) <= L(0)
            /\ upto(Len(steiner_nodes))
                   = _iterated_1_steiner(terminals, MaxAdd, MinImprove)

\* a build that accepted a Steiner point, which a loop of no iterations
\* would not have added
C20_PointAccepted ==
    /\ op = "route"
    /\ steiner_nodes # << >>
    /\ _iterated_1_steiner(_get_terminals_canvas_xy(points_list), 0, MinImprove)
           = _get_terminals_canvas_xy(points_list)


\* ----------------------------------- router builds with equally good points
\* the corners and the centre of the 3 x 3 grid: four of them as terminals
\* leave two Hanan points that shorten the MST by the same amount
CrossCells == {<<0, 0>>, <<0, 2>>, <<1, 1>>, <<2, 0>>, <<2, 2>>}

MaxTerminals == 4

RECURSIVE CellLists(_, _)
\* the lists of n or fewer points at pairwise distinct cells of `cells`
CellLists(cells, n) ==
    IF n = 0 THEN {<< >>}
    ELSE LET shorter == CellLists(cells, n - 1)
         IN  shorter \cup
             UNION {{Append(s, c) : c \in cells \ SeqRange(s)} :
                        s \in {t \in shorter : Len(t) = n - 1}}

InitHanan ==
    /\ app = "router"
    /\ PaletteIdle
    /\ \E cells \in CellLists(CrossCells, MaxTerminals) :
           /\ points_list = placed(cells)
           /\ item_to_point = [o \in DOMAIN cells |-> o]
    /\ duct_segments = {}
    /\ steiner_nodes = << >>
    /\ stale_edits = 0
    /\ sizing = NoCall
    /\ op = "init"

SpecHanan == InitHanan /\ [][NextPlaced]_vars

\* the MST length over the points P with the point c added
length_with(P, c) == _mst_length(Append(P, c), _prim_mst(Append(P, c)))

\* the Hanan-grid points of the terminals that are not in P
unused_hanan(terminals, P) ==
    ({t[1] : t \in SeqRange(terminals)} \X {t[2] : t \in SeqRange(terminals)})
        \ SeqRange(P)

\* C21: every point the iterated 1-Steiner loop accepts is a Hanan-grid point
\* of the original terminals that is not in the point set of its iteration,
\* no unused Hanan point gives a shorter MST, it is the first in x-then-y
\* order among the equally good ones, and no point is in the final list twice.
C21_BestUnusedHananPoint ==
    op = "route" =>
        LET terminals == _get_terminals_canvas_xy(points_list)
            upto(k) == terminals \o SubSeq(steiner_nodes, 1, k)
            final == upto(Len(steiner_nodes))
        IN  /\ \A k \in 1..Len(steiner_nodes) :
                   LET P == upto(k - 1)
                       s == steiner_nodes[k]
                       unused == unused_hanan(terminals, P)
                   IN  /\ s \in unused
                       /\ \A c \in unused :
                              /\ length_with(P, s) <= length_with(P, c)
                              /\ length_with(P, s) = length_with(P, c) =>
                                     \/ s[1] < c[1]
                                     \/ s[1] = c[1] /\ s[2] <= c[2]
            /\ \A i, j \in DOMAIN final : final[i] = final[j] => i = j
            /\ final = _iterated_1_steiner(terminals, MaxAdd, MinImprove)

\* a build that accepted a point while another unused Hanan point was
\* equally good
C21_TieBroken ==
    /\ op = "route"
    /\ steiner_nodes # << >>
    /\ LET terminals == _get_terminals_canvas_xy(points_list)
       IN  \E c \in unused_hanan(terminals, terminals) :
               /\ c # steiner_nodes[1]
               /\ length_with(terminals, c)
                      = length_with(terminals, steiner_nodes[1])


RECURSIVE route_steps(_, _, _)
\* the edges in routing order, each with the stored set it is routed onto
\* and the stored set it leaves
route_steps(ducts, P, edges) ==
    IF edges = << >> THEN << >>
    ELSE LET a == P[Head(edges)[1]]
             b == P[Head(edges)[2]]
             after == _route_edge_and_store(ducts, a, b)
         IN  <<[a |-> a, b |-> b, before |-> ducts, after |-> after]>>
                 \o route_steps(after, P, Tail(edges))

\* the steps of the build that left the current duct_segments
last_route_steps ==
    LET P == _iterated_1_steiner(_get_terminals_canvas_xy(points_list),
                                 MaxAdd, MinImprove)
    IN  route_steps({}, P, _prim_mst(P))

\* the two end points of a stored segment
stored_ends(seg) ==
    IF seg[1] = "H" THEN {<<seg[3], seg[2]>>, <<seg[4], seg[2]>>}
    ELSE {<<seg[2], seg[3]>>, <<seg[2], seg[4]>>}

\* the legs of non-zero length of the L from a to b through the corner
legs(a, corner, b) == {leg \in {{a, corner}, {corner, b}} : Cardinality(leg) = 2}

horizontal_first(a, b) == legs(a, <<b[1], a[2]>>, b)
vertical_first(a, b) == legs(a, <<a[1], b[2]>>, b)

\* how many legs of an L are stored already
stored_legs(ducts, L) ==
    Cardinality(L \cap {stored_ends(s) : s \in ducts})


\* ------------------------------------------------ one edge routed by itself
MaxEdgeCoord == 2

EdgeCells == (0..MaxEdgeCoord) \X (0..MaxEdgeCoord)

\* the stored forms of the legs of both L routes between a and b
route_legs(a, b) ==
    SeqRange(_l_route_options(a, b).opt1) \cup SeqRange(_l_route_options(a, b).opt2)

\* duct_segments holding some legs of the two L routes of the edge a-b, as
\* earlier edges of the same build may have left them
InitEdge ==
    /\ app = "router"
    /\ PaletteIdle
    /\ points_list = << >>
    /\ item_to_point = << >>
    /\ steiner_nodes = << >>
    /\ stale_edits = 0
    /\ \E a \in EdgeCells, b \in EdgeCells :
           /\ duct_segments \in SUBSET route_legs(a, b)
           /\ sizing = [fn |-> "input", args |-> <<a, b>>, result |-> << >>]
    /\ op = "init"

\* one pass of `for i, j in edges: _route_edge_and_store(P[i], P[j])`
call_route_edge_and_store ==
    /\ Routing
    /\ sizing.fn = "input"
    /\ Len(sizing.args) = 2
    /\ duct_segments' = _route_edge_and_store(duct_segments, sizing.args[1],
                                              sizing.args[2])
    /\ sizing' = [fn |-> "_route_edge_and_store",
                  args |-> <<duct_segments, sizing.args[1], sizing.args[2]>>,
                  result |-> duct_segments']
    /\ op' = "route_edge"
    /\ UNCHANGED <<app, points, inlet_flow, segments, dragging_segment, motions,
                   points_list, item_to_point, steiner_nodes, stale_edits>>

SpecEdge ==
    (InitEdge \/ InitPlaced)
        /\ [][NextPlaced \/ call_route_edge_and_store]_vars

\* the edge a-b routed onto `before` left `after` as the route choice says
stored_as_chosen(before, a, b, after) ==
    LET hv == horizontal_first(a, b)
        vh == vertical_first(a, b)
        chosen == IF stored_legs(before, vh) > stored_legs(before, hv)
                  THEN vh ELSE hv
    IN  /\ {stored_ends(s) : s \in after}
               = {stored_ends(s) : s \in before} \cup chosen
        /\ \A s, t \in after : stored_ends(s) = stored_ends(t) => s = t
        /\ \A s \in after \ before :
               \A p, q \in stored_ends(s) : p # q =>
                   /\ _norm_seg(p[1], p[2], q[1], q[2]) = s
                   /\ _norm_seg(q[1], q[2], p[1], p[2]) = s

\* C22: an MST edge a-b is stored as the vertical-then-horizontal L only if
\* strictly more of its legs than of the horizontal-then-vertical L are stored
\* already, and as the horizontal-then-vertical L otherwise, ties included;
\* the stored form of a segment is the same for either order of its end
\* points, and no two stored entries are the same segment.
C22_PrefersHorizontalFirst ==
    /\ op = "route" =>
           /\ \A k \in DOMAIN last_route_steps :
                  LET st == last_route_steps[k]
                  IN  stored_as_chosen(st.before, st.a, st.b, st.after)
           /\ last_route_steps # << >> =>
                  last_route_steps[Len(last_route_steps)].after = duct_segments
    /\ op = "route_edge" =>
           stored_as_chosen(sizing.args[1], sizing.args[2], sizing.args[3],
                            duct_segments)

\* an edge stored as the vertical-then-horizontal L, more of whose legs were
\* stored already
C22_VerticalFirstStored ==
    /\ op = "route_edge"
    /\ sizing.args[2][1] # sizing.args[3][1]
    /\ sizing.args[2][2] # sizing.args[3][2]
    /\ stored_legs(sizing.args[1], vertical_first(sizing.args[2], sizing.args[3]))
           > stored_legs(sizing.args[1],
                         horizontal_first(sizing.args[2], sizing.args[3]))
    /\ {stored_ends(s) : s \in duct_segments \ sizing.args[1]}
           \subseteq vertical_first(sizing.args[2], sizing.args[3])
    /\ duct_segments # sizing.args[1]


\* ------------------------------------------- builds of placed terminal lists
MaxGroupOutlets == 3

\* cells left and right of the inlet at (1, 1)
GroupCells == {0, 2, 3} \X Rows

OutletFlows == {0, 1, 2}

RECURSIVE FlowLists(_)
\* the lists of n or fewer outlets the clicks and flow entries lead to
FlowLists(n) ==
    IF n = 0 THEN {<< >>}
    ELSE LET shorter == FlowLists(n - 1)
         IN  shorter \cup
             {Append(s, AirPoint(c[1], c[2], "outlet", q)) :
                 s \in {t \in shorter : Len(t) = n - 1},
                 c \in GroupCells, q \in OutletFlows}

InitGroups ==
    /\ app = "palette"
    /\ inlet_flow = 2
    /\ points \in {<<AirPoint(c[1], c[2], "inlet", 2)>> \o s :
                      c \in InletCells, s \in FlowLists(MaxGroupOutlets)}
    /\ segments = EmptyBag
    /\ dragging_segment = NotDragging
    /\ motions = 0
    /\ op = "init"
    /\ RouterIdle
    /\ sizing = NoCall

NextGroups == \E dp \in DpValues : draw_duct_network(dp)

SpecGroups == InitGroups /\ [][NextGroups]_vars

\* the groups of one side of the terminals the last build read
built_groups(desc) == group_outlets_by_y(side_outlets(points, desc))

\* the segments stored that start at (x1, y1) and end at (x2, y2)
stored_from_to(x1, y1, x2, y2) ==
    {s \in BagToSet(segments) :
        s.mx1 = x1 /\ s.my1 = y1 /\ s.mx2 = x2 /\ s.my2 = y2}

\* for a group whose outlets all have a positive flow, a sized build stores
\* the riser, the distributor segments and the stubs with the flows named
group_flows_as_stated(group, desc) ==
    LET ordered == Sorted(group, "mx", desc)
        n == Len(ordered)
        y_main == points[1].my
        group_y == group[1].my
        after(i) == SumFlow(SubSeq(ordered, i + 1, n))
        riser == stored_from_to(ordered[1].mx, y_main, ordered[1].mx, group_y)
        distributor(i) == stored_from_to(ordered[i].mx, group_y,
                                         ordered[i + 1].mx, group_y)
        stub(i) == stored_from_to(ordered[i].mx, group_y,
                                  ordered[i].mx, ordered[i].my)
        all_positive == \A i \in 1..n : ordered[i].flow > 0
    IN  all_positive /\ segments # EmptyBag =>
            /\ \E s \in riser : s.vertical_only /\ s.flow = SumFlow(group)
            /\ \A i \in 1..(n - 1) :
                   \E s \in distributor(i) : ~s.vertical_only /\ s.flow = after(i)
            /\ \A i \in 1..n :
                   ordered[i].my # group_y =>
                       \E s \in stub(i) : s.vertical_only /\ s.flow = ordered[i].flow

\* the groups of a side hold each outlet of the side once
groups_partition(desc) ==
    SeqToBag(Concat(built_groups(desc))) = SeqToBag(side_outlets(points, desc))

lowest_offset(group) ==
    CHOOSE y \in {group[i].my : i \in DOMAIN group} :
        \A i \in DOMAIN group : y <= group[i].my

\* the group holds every outlet of the side within the tolerance of its
\* lowest member, to either side of it
within_tolerance_of_lowest(group, desc) ==
    LET near(ot) == Abs(ot.my - lowest_offset(group)) <= YTolerance
    IN  SeqToBag(group) = SeqToBag(SelectSeq(side_outlets(points, desc), near))

\* the group holds every outlet of the side at the offset of its lowest
\* member or up to the tolerance beyond it
within_tolerance_above_lowest(group, desc) ==
    LET near(ot) == /\ ot.my >= lowest_offset(group)
                    /\ ot.my - lowest_offset(group) <= YTolerance
    IN  SeqToBag(group) = SeqToBag(SelectSeq(side_outlets(points, desc), near))

colinear_outlets(pts) ==
    LET is_colinear(p) == IsOutlet(p) /\ p.mx = pts[1].mx /\ p.flow > 0
    IN  SelectSeq(Tail(pts), is_colinear)

\* the list without its outlets at the inlet's horizontal coordinate
without_colinear(pts) ==
    LET elsewhere(p) == ~(IsOutlet(p) /\ p.mx = pts[1].mx)
    IN  <<pts[1]>> \o SelectSeq(Tail(pts), elsewhere)

\* C24: a sized build stores, for each outlet at the inlet's horizontal
\* coordinate with a positive airflow, exactly one segment, the vertical stub
\* from the inlet position to the outlet carrying the outlet's airflow; the
\* other segments, the spine and its flows included, are those of the build
\* without these outlets.
C24_ColinearOutletGetsOneStub ==
    op = "build" /\ segments # EmptyBag =>
        LET inlet == points[1]
            stub(ot) == DuctSegment(inlet.mx, inlet.my, ot.mx, ot.my, ot.flow, TRUE)
            stubs == [c \in DOMAIN colinear_outlets(points) |->
                         stub(colinear_outlets(points)[c])]
        IN  \E dp \in DpValues :
                /\ dp > 0
                /\ segments = SeqToBag(network_segments(without_colinear(points), dp))
                                  (+) SeqToBag(stubs)

\* a build with a spine and an outlet of positive airflow above or below the
\* inlet
C24_ColinearBesideSpine ==
    /\ op = "build"
    /\ colinear_outlets(points) # << >>
    /\ \E s \in BagToSet(segments) : ~s.vertical_only /\ s.mx1 # s.mx2
    /\ \E s \in BagToSet(segments) :
           /\ s.vertical_only
           /\ s.mx1 = points[1].mx
           /\ s.my1 # s.my2


\* ------------------------------------------ drags with the pointer's offset
\* pointer offsets from drag_start_model, in half grid steps
RawOffsets == (0 - 2 * MaxShift)..(2 * MaxShift)

NextSnap ==
    \/ \E dp \in DpValues : draw_duct_network(dp)
    \/ \E seg \in BagToSet(segments) : on_left_drag_start(seg)
    \/ \E h \in RawOffsets : on_left_drag_motion(h)
    \/ on_left_release

SpecSnap == InitDrag /\ [][NextSnap]_vars

\* the end points of the segments of a bag
ends_of(segs) == UNION {seg_endpoints(s) : s \in BagToSet(segs)}

\* C25: a motion event displaces end points along one axis only, x for a
\* vertical dragged segment and y for a horizontal one, by one whole number of
\* grid steps; a displacement that snaps to zero changes nothing; the dragged
\* segment lies along its orientation on a grid line, so every displacement
\* is whole and every end point stays on a grid point.
C25_DragAlongOneAxisByGridSteps ==
    [][dragging_segment.active /\ op' \in {"drag", "drag_still"}
       => LET seg == dragging_segment.seg
              before == ends_of(segments) \cup seg_endpoints(seg)
          IN  /\ IF seg.vertical_only THEN seg.mx1 = seg.mx2
                 ELSE seg.my1 = seg.my2
              /\ \A h \in RawOffsets : snapped_shift(seg, h) % 2 = 0
              /\ op' = "drag_still" =>
                     /\ segments' = segments
                     /\ dragging_segment' = dragging_segment
                     /\ points' = points
              /\ op' = "drag" =>
                     \E d \in Shifts :
                         LET dx == IF seg.vertical_only THEN d ELSE 0
                             dy == IF seg.vertical_only THEN 0 ELSE d
                         IN  \A e \in ends_of(segments') :
                                 \/ e \in before
                                 \/ <<e[1] - dx, e[2] - dy>> \in before
              /\ \A e \in ends_of(segments') : e[1] \in Int /\ e[2] \in Int]_vars

\* a motion event that snapped to zero after two that moved segments, the
\* last of them along y
C25_StillAfterDrags ==
    /\ op = "drag_still"
    /\ motions >= 2
    /\ ~dragging_segment.seg.vertical_only
    /\ segments # SeqToBag(network_segments(points, 1))


\* the stored segments between the points p and q, either way round
stored_between(segs, p, q) ==
    {s \in BagToSet(segs) : seg_endpoints(s) = {p, q}}

\* the segments of the list reached from the dragged segment that have one
\* end point on a terminal and would be diagonal after the displacement
split_cases(pts, segs, base, dx, dy) ==
    {s \in bfs_connected({base}, BagToSet(segs)) \cap BagToSet(segs) :
        LET fixed1 == is_attached_to_point(pts, s.mx1, s.my1)
            fixed2 == is_attached_to_point(pts, s.mx2, s.my2)
        IN  /\ fixed1 # fixed2
            /\ IF fixed1 THEN s.mx1 # s.mx2 + dx /\ s.my1 # s.my2 + dy
               ELSE s.mx1 + dx # s.mx2 /\ s.my1 + dy # s.my2}

\* the H part and the V part stored between `from`, `joint` and `to`, both
\* with the flow of the segment they replace
replaced_by_L(segs, s, from, joint, to) ==
    /\ joint # from
    /\ joint # to
    /\ \E a \in stored_between(segs, from, joint) : a.flow = s.flow
    /\ \E b \in stored_between(segs, joint, to) : b.flow = s.flow
    /\ \A a \in stored_between(segs, from, joint) \cup stored_between(segs, joint, to) :
           a.vertical_only = (a.mx1 = a.mx2)

\* the motion event of this step, as the displacement (dx, dy) it applied
motion_of_step(dx, dy) ==
    /\ dragging_segment.active
    /\ op' = "drag"
    /\ IF dragging_segment.seg.vertical_only THEN dx # 0 /\ dy = 0
       ELSE dx = 0 /\ dy # 0
    /\ segments' = move_connected_segments(points, segments, dragging_segment.seg,
                                           dragging_segment.live, dx, dy)

\* C26: the L that replaces a segment with one fixed end point
\* runs from the fixed end point to the displaced one, horizontal part first
\* for an x displacement and vertical part first for a y displacement, and
\* both parts carry the flow of the segment replaced.
C26_LFromFixedEndpoint ==
    [][\A dx \in Shifts \cup {0}, dy \in Shifts \cup {0} :
          motion_of_step(dx, dy) =>
              \A s \in split_cases(points, segments, dragging_segment.seg, dx, dy) :
                  LET fixed1 == is_attached_to_point(points, s.mx1, s.my1)
                      fixed == IF fixed1 THEN <<s.mx1, s.my1>> ELSE <<s.mx2, s.my2>>
                      moved == IF fixed1 THEN <<s.mx2 + dx, s.my2 + dy>>
                               ELSE <<s.mx1 + dx, s.my1 + dy>>
                      joint == IF dx # 0 THEN <<moved[1], fixed[2]>>
                               ELSE <<fixed[1], moved[2]>>
                  IN  replaced_by_L(segments', s, fixed, joint, moved)]_vars


\* ------------------------------ drags of networks with outlets of no flow
\* cells right of the inlet at (1, 1)
FrameCells == {2, 3} \X Rows

RECURSIVE OutletListsOver(_, _, _)
\* the lists of n or fewer outlets at cells of `cells` with flows of `flows`
OutletListsOver(cells, flows, n) ==
    IF n = 0 THEN {<< >>}
    ELSE LET shorter == OutletListsOver(cells, flows, n - 1)
         IN  shorter \cup
             {Append(s, AirPoint(c[1], c[2], "outlet", q)) :
                 s \in {t \in shorter : Len(t) = n - 1}, c \in cells, q \in flows}

\* terminal lists with outlets whose flow was never entered: such an outlet
\* stops the branch of its group, and what lies beyond it is stored apart
InitFrame ==
    /\ app = "palette"
    /\ inlet_flow = 2
    /\ points \in {<<AirPoint(c[1], c[2], "inlet", 2)>> \o s :
                      c \in InletCells,
                      s \in OutletListsOver(FrameCells, FlowValues, MaxDragOutlets)}
    /\ segments = EmptyBag
    /\ dragging_segment = NotDragging
    /\ motions = 0
    /\ op = "init"
    /\ RouterIdle
    /\ sizing = NoCall

SpecFrame == InitFrame /\ [][NextDrag]_vars

\* the segments of the list in the connected component of the dragged one:
\* the least set holding it and every segment sharing an end point with a
\* member
component_of(base, segs) ==
    LET live == BagToSet(segs)
        closed(S) == \A s \in S, t \in live : SharesEndpoint(s, t) => t \in S
        least == CHOOSE S \in SUBSET live :
                     /\ \A t \in live : SharesEndpoint(base, t) \/ t = base => t \in S
                     /\ closed(S)
                     /\ \A T \in SUBSET live :
                            (/\ \A t \in live :
                                   SharesEndpoint(base, t) \/ t = base => t \in T
                             /\ closed(T)) => S \subseteq T
    IN  least

both_free(pts, s) ==
    /\ ~is_attached_to_point(pts, s.mx1, s.my1)
    /\ ~is_attached_to_point(pts, s.mx2, s.my2)

\* C27: a motion event leaves every terminal and every segment outside the
\* connected component of the dragged segment as it was, and a segment of the
\* component with both end points free is stored displaced by (dx, dy), its
\* length, orientation and flow unchanged.
C27_DragFrame ==
    [][\A dx \in Shifts \cup {0}, dy \in Shifts \cup {0} :
          motion_of_step(dx, dy) =>
              LET component == component_of(dragging_segment.seg, segments)
                  outside == BagToSet(segments) \ component
                  free == {s \in component : both_free(points, s)}
                  shifted(s) == [s EXCEPT !.mx1 = s.mx1 + dx, !.my1 = s.my1 + dy,
                                          !.mx2 = s.mx2 + dx, !.my2 = s.my2 + dy]
              IN  /\ points' = points
                  /\ inlet_flow' = inlet_flow
                  /\ \A s \in outside :
                         CopiesIn(s, segments') >= CopiesIn(s, segments)
                  /\ \A s \in free :
                         CopiesIn(shifted(s), segments') >= CopiesIn(s, segments)
                  /\ BagCardinality(segments') >= BagCardinality(segments)]_vars

\* after a motion event: a segment outside the component of the dragged
\* segment, and a segment of the component with both end points free
C27_SegmentOutsideComponent ==
    /\ op = "drag"
    /\ dragging_segment.live
    /\ BagToSet(segments) \ component_of(dragging_segment.seg, segments) # {}
    /\ \E s \in component_of(dragging_segment.seg, segments) :
           both_free(points, s)


\* C28: every stored duct segment has two distinct end points: the segments
\* of the spine/branch builder, those left by a drag relocation, and the
\* segments of the Steiner router.
C28_NoZeroLengthSegment ==
    /\ \A s \in BagToSet(segments) : non_zero_length(s)
    /\ \A s \in duct_segments : s[3] # s[4]


\* C29: a build rejected because the inlet's airflow is zero or negative
\* leaves the stored segments as they were, also when the airflow was set so
\* after an earlier successful build.
C29_RejectedBuildKeepsSegments ==
    [][op' = "build_no_flow" => segments' = segments]_vars


\* C30: every motion event of a gesture that moves segments starts from a
\* dragged segment that is an element of the segment list; a segment removed
\* by an L-split is not the base of a later motion event.
C30_DragBaseIsLive ==
    [][dragging_segment.active /\ op' = "drag" => dragging_segment.live]_vars

====
